---- MODULE Spec2Model ----
(***************************************************************************)
(* A model of mcp-msoffice-interop-word: the WordService singleton that    *)
(* drives a Word application through COM automation, the tool handlers     *)
(* that wrap its methods, and the transport bootstrap of index.ts.         *)
(*                                                                         *)
(* The automation layer (winax / Word) is the environment: every COM call  *)
(* may throw, and the outcome of each call is an input of the action that  *)
(* makes it.                                                               *)
(***************************************************************************)
EXTENDS Integers, Sequences, FiniteSets, TLC

\* Bound on the number of Word.Application instances created in a run.
MaxInst == 3
\* Bound on the number of SSE connections accepted in a run.
MaxConns == 3
\* Bound on the number of documents open in the application.
MaxDocs == 1
\* Bound on the size of a collection of the document (tables, rows, columns,
\* inline shapes, sections, paragraphs).
MaxN == 2

VARIABLES
  wordApp,   \* WordService.wordApp: 0 is null, n > 0 the n-th created instance
  created,   \* number of WinaxObject instances constructed so far
  running,   \* instances constructed and not terminated by a successful Quit
  trace,     \* automation calls made by the last operation, in order
  hlast,     \* outcome of the last call of the handle manager
  transportMode, \* process.env.MCP_TRANSPORT as startServer reads it
  startFailure,  \* what made startup fail: "none", "connect" (the stdio
             \* transport) or "listen" (the HTTP server of the sse mode)
  phase,     \* index.ts: "boot" before the module runs, then the transport mode
             \* being served ("stdio", "sse") or "exited"
  exitCode,  \* argument of process.exit, -1 while the process runs
  registry,  \* names of the tools registered with mcpServer
  nextConn,  \* number of GET /sse requests accepted so far
  connState, \* per accepted connection: "connecting", "connected", "failed"
             \* (500 sent, response ended) or "closed" (close event delivered)
  transports,\* the table `transports`: session id -> transport
  lastPost,  \* the last POST /messages: session id given (and whether a
             \* connection had been given it), response, dispatch; tick flips
             \* with every POST
  nDocs,     \* number of documents open in the instance the handle refers to
  pc,        \* "idle", or "returned" while the caller holds the outcome of inv
  inv,       \* the last service call or tool call and its outcome
  conc       \* two tool invocations in flight on the event loop, each at one
             \* of its await points, and the documents they work on

handleVars == <<wordApp, created, running>>
srvVars == <<transportMode, startFailure, phase, exitCode, registry, nextConn,
            connState, transports, lastPost>>
opVars == <<nDocs, pc, inv, conc>>
vars == <<wordApp, created, running, trace, hlast,
          transportMode, startFailure,
          phase, exitCode, registry, nextConn, connState, transports, lastPost,
          nDocs, pc, inv, conc>>

(***************************************************************************)
(* Error messages.  A message is the sequence of its fragments: wrapping   *)
(* `${prefix} Error: ${error}` puts the prefix in front of the cause, and  *)
(* String.includes is membership of a fragment.                            *)
(***************************************************************************)
Wrap(prefix, cause) == <<prefix>> \o cause
Includes(msg, fragment) == \E i \in 1..Len(msg) : msg[i] = fragment
NoError == <<>>
ComError == <<"COM error">>

\* An automation call in a trace: kind is "get" (a property read or a lookup
\* such as Item), "set" (a property write), "call" (a method that acts) or
\* "new"; `on` is the application instance it goes to, args its arguments.
Call(kind, member, on, args) == <<kind, member, on, args>>
Mutating(c) == c[1] \in {"set", "call"}

(***************************************************************************)
(* WordService.getWordApplication                                          *)
(***************************************************************************)
\* Outcomes of the three liveness probes: which of them throws, if any.
ProbeOutcomes == {"ok", "Visible", "Documents", "Count"}
CallOutcomes == {"ok", "throws"}

\* The probe reads made on a held handle, up to the one that throws.
ProbeTrace(app, probe) ==
  LET all == <<Call("get", "Visible", app, <<>>), Call("get", "Documents", app, <<>>),
               Call("get", "Documents.Count", app, <<>>)>>
      n == CASE probe = "Visible" -> 1
             [] probe = "Documents" -> 2
             [] OTHER -> 3
  IN SubSeq(all, 1, n)

\* A faulty variant: a failed probe is logged but the handle is kept and returned.
getWordApplication_keepStale(app, n, probe, ctor, vis) ==
  IF app # 0
    THEN [wordApp |-> app, created |-> n, ret |-> app, err |-> NoError,
          trace |-> ProbeTrace(app, probe)]
  ELSE IF ctor = "throws" \/ vis = "throws"
    THEN [wordApp |-> 0, created |-> n, ret |-> 0,
          err |-> Wrap("Failed to initialize Word.Application.", ComError),
          trace |-> <<Call("new", "Word.Application", 0, <<>>)>>]
  ELSE [wordApp |-> n + 1, created |-> n + 1, ret |-> n + 1, err |-> NoError,
        trace |-> <<Call("new", "Word.Application", n + 1, <<>>),
                    Call("set", "Visible", n + 1, <<1>>)>>]

\* The whole method, from the held handle `app` and the number `n` of
\* instances constructed so far.  ret = 0 means the call threw.
getWordApplication(app, n, probe, ctor, vis) ==
  LET probed == app # 0
      probeOk == probed /\ probe = "ok"
      t1 == IF probed THEN ProbeTrace(app, probe) ELSE <<>>
      \* line 51: this.wordApp = null on a failed probe
      app1 == IF probed /\ ~probeOk THEN 0 ELSE app
  IN IF probeOk
       THEN [wordApp |-> app, created |-> n, ret |-> app, err |-> NoError,
             trace |-> t1]
     ELSE IF ctor = "throws"
       THEN [wordApp |-> app1, created |-> n, ret |-> 0,
             err |-> Wrap("Failed to initialize Word.Application.", ComError),
             trace |-> t1 \o <<Call("new", "Word.Application", 0, <<>>)>>]
     ELSE IF vis = "throws"
       \* line 59 has already stored the new instance when line 60 throws
       THEN [wordApp |-> n + 1, created |-> n + 1, ret |-> 0,
             err |-> Wrap("Failed to initialize Word.Application.", ComError),
             trace |-> t1 \o <<Call("new", "Word.Application", n + 1, <<>>),
                               Call("set", "Visible", n + 1, <<1>>)>>]
     ELSE [wordApp |-> n + 1, created |-> n + 1, ret |-> n + 1, err |-> NoError,
           trace |-> t1 \o <<Call("new", "Word.Application", n + 1, <<>>),
                             Call("set", "Visible", n + 1, <<1>>)>>]

\* Whether a call with these outcomes constructs an instance.
Constructs(app, probe, ctor) == (app = 0 \/ probe # "ok") /\ ctor = "ok"

(***************************************************************************)
(* WordService.quitWord                                                    *)
(***************************************************************************)
\* A faulty variant: the reference is cleared only when Quit succeeds.
quitWord_keepOnError(app, quit) ==
  IF app # 0
    THEN IF quit = "ok"
           THEN [wordApp |-> 0, threw |-> FALSE, quitted |-> {app},
                 trace |-> <<Call("call", "Quit", app, <<0>>)>>]
           ELSE [wordApp |-> app, threw |-> FALSE, quitted |-> {},
                 trace |-> <<Call("call", "Quit", app, <<0>>)>>]
    ELSE [wordApp |-> app, threw |-> FALSE, quitted |-> {}, trace |-> <<>>]

\* `quit` is the outcome of this.wordApp.Quit(0); 0 is wdDoNotSaveChanges.
quitWord(app, quit) ==
  IF app # 0
    THEN IF quit = "ok"
           \* lines 178-179
           THEN [wordApp |-> 0, threw |-> FALSE, quitted |-> {app},
                 trace |-> <<Call("call", "Quit", app, <<0>>)>>]
           \* lines 181-184: the catch clears the reference and does not rethrow
           ELSE [wordApp |-> 0, threw |-> FALSE, quitted |-> {},
                 trace |-> <<Call("call", "Quit", app, <<0>>)>>]
    ELSE [wordApp |-> app, threw |-> FALSE, quitted |-> {}, trace |-> <<>>]


(***************************************************************************)
(* Service methods as scripts                                              *)
(*                                                                         *)
(* A method body is the sequence of the automation calls and explicit      *)
(* throws it would make if no call failed.  Each step carries the prefixes *)
(* of the catch clauses around it, outermost first.                        *)
(***************************************************************************)
Step(kind, member, args) ==
  [kind |-> kind, member |-> member, args |-> args, wraps |-> <<>>,
   broken |-> FALSE, swallow |-> FALSE, svc |-> "none"]
Get(member) == Step("get", member, <<>>)
Item(member, index) == Step("get", member, <<index>>)
Set(member, value) == Step("set", member, <<value>>)
Do(member, args) == Step("call", member, args)
\* throw new Error(fragment), or a TypeError raised by the runtime
Throw(fragment) == Step("throw", fragment, <<>>)
\* a call the application cannot serve: it always throws
Broken(step) == [step EXCEPT !.broken = TRUE]
\* a call whose exception is caught and only logged
Swallowed(step) == [step EXCEPT !.swallow = TRUE]
\* await this.getWordApplication()
Acquire == Step("acquire", "getWordApplication", <<>>)
\* try { script } catch (error) { throw new Error(`${prefix} Error: ${error}`) }
In(prefix, script) ==
  [i \in 1..Len(script) |-> [script[i] EXCEPT !.wraps = <<prefix>> \o @]]

\* await wordService.method(...) in a tool handler: the steps of the call
Svc(method, script) ==
  [i \in 1..Len(script) |-> [script[i] EXCEPT !.svc = method]]

RECURSIVE WrapAll(_, _)
WrapAll(wraps, cause) ==
  IF wraps = <<>> THEN cause ELSE Wrap(Head(wraps), WrapAll(Tail(wraps), cause))

IsCall(step) == step.kind \in {"get", "set", "call"}

\* Outcomes of getWordApplication a method may meet, as <<probe, ctor, vis>>:
\* handle fine (or first creation), stale and recreated, creation failing at
\* the constructor, creation failing at Visible.
AcquireOk == <<"ok", "ok", "ok">>
AcquireCases ==
  {AcquireOk, <<"Count", "ok", "ok">>, <<"Count", "throws", "ok">>,
   <<"Count", "ok", "throws">>}

\* Runs a script from handle `app` with `n` instances constructed: `acq` is the
\* outcome of its getWordApplication call, failAt the position of the one
\* automation call that throws (0: none).
Run(app, n, script, acq, failAt) ==
  LET acquires == Len(script) > 0 /\ script[1].kind = "acquire"
      a == IF acquires
             THEN getWordApplication(app, n, acq[1], acq[2], acq[3])
             ELSE [wordApp |-> app, created |-> n, ret |-> app, err |-> NoError,
                   trace |-> <<>>]
      bad(i) == \/ script[i].kind = "throw"
                \/ script[i].broken
                \/ i = failAt /\ IsCall(script[i])
                \/ script[i].kind = "acquire" /\ a.ret = 0
      S == {i \in 1..Len(script) : bad(i)}
      stop == IF S = {} THEN 0 ELSE CHOOSE i \in S : \A j \in S : i <= j
      base == IF stop = 0 THEN NoError
              ELSE IF script[stop].kind = "throw" THEN <<script[stop].member>>
              ELSE IF script[stop].kind = "acquire" THEN a.err
              ELSE ComError
      made == SelectSeq(SubSeq(script, 1, IF stop = 0 THEN Len(script) ELSE stop),
                        IsCall)
      done == SelectSeq(SubSeq(script, 1, IF stop = 0 THEN Len(script) ELSE stop - 1),
                        IsCall)
  IN [wordApp |-> a.wordApp, created |-> a.created,
      err |-> IF stop = 0 \/ script[stop].swallow THEN NoError
              ELSE WrapAll(script[stop].wraps, base),
      trace |-> a.trace \o [i \in 1..Len(made) |->
                  Call(made[i].kind, made[i].member, a.ret, made[i].args)],
      done |-> [i \in 1..Len(done) |-> done[i].member],
      calls |-> [i \in 1..Len(made) |->
                  Call(made[i].kind, made[i].member, a.ret, made[i].args)],
      entered |-> {script[i].svc :
                     i \in 1..(IF stop = 0 THEN Len(script) ELSE stop)} \ {"none"}]

\* Change of the number of open documents made by the completed calls.
RECURSIVE DocsDelta(_)
DocsDelta(done) ==
  IF done = <<>> THEN 0
  ELSE DocsDelta(Tail(done))
         + (CASE Head(done) \in {"Documents.Add", "Documents.Open"} -> 1
              [] Head(done) = "Close" -> -1
              [] OTHER -> 0)

\* app.ActiveDocument with no document open: null, or the read throws.
NoDocModes == {"null", "throws"}

\* const app = await this.getWordApplication();
\* app.ActiveDocument.ActiveWindow.Selection, inside the method's try
Selection(nd, noDoc) ==
  IF nd > 0 THEN <<Get("ActiveDocument"), Get("ActiveWindow"), Get("Selection")>>
  ELSE IF noDoc = "null" THEN <<Get("ActiveDocument"), Throw("TypeError")>>
  ELSE <<Broken(Get("ActiveDocument"))>>

\* A faulty variant: with no document open, one is created and used.
getActiveDocument_createsWhenNone(nd, noDoc) ==
  <<Acquire>> \o
  In("Failed to get active document.",
     IF nd > 0 THEN <<Get("ActiveDocument")>>
     ELSE <<Get("Documents"), Do("Documents.Add", <<>>), Get("ActiveDocument")>>)

\* WordService.getActiveDocument (lines 73-85)
getActiveDocument(nd, noDoc) ==
  <<Acquire>> \o
  In("Failed to get active document.",
     IF nd > 0 THEN <<Get("ActiveDocument")>>
     ELSE IF noDoc = "null"
       THEN <<Get("ActiveDocument"), Throw("No active document found in Word.")>>
     ELSE <<Broken(Get("ActiveDocument"))>>)

\* A faulty variant: the upper bound is off by one.
CheckIndex_offByOne(index, count, fragment) ==
  IF index <= 0 \/ index > count + 1 THEN <<Throw(fragment)>> ELSE <<>>

\* if (index <= 0 || index > count) throw new Error(fragment)
CheckIndex(index, count, fragment) ==
  IF index <= 0 \/ index > count THEN <<Throw(fragment)>> ELSE <<>>

\* An optional argument is <<>> when omitted and <<v>> when given.
Given(opt) == opt # <<>>
OrElse(opt, default) == IF opt = <<>> THEN default ELSE opt[1]

(* Document methods, lines 92-166 *)
createDocument ==
  <<Acquire>> \o In("Failed to create new document.",
                    <<Get("Documents"), Do("Documents.Add", <<>>)>>)
\* fileExists: whether filePath resolves to a document Word can open
openDocument(fileExists) ==
  <<Acquire>> \o
  In("Failed to open document: filePath.",
     <<Get("Documents"),
       IF fileExists THEN Do("Documents.Open", <<>>)
       ELSE Broken(Do("Documents.Open", <<>>))>>)
saveActiveDocument(nd, noDoc) ==
  getActiveDocument(nd, noDoc) \o
  In("Failed to save active document.", <<Do("Save", <<>>)>>)
saveActiveDocumentAs(nd, noDoc, fileFormat) ==
  getActiveDocument(nd, noDoc) \o
  In("Failed to save document as: filePath.", <<Do("SaveAs2", <<OrElse(fileFormat, 16)>>)>>)
\* A faulty variant: a failure of Close is thrown on.
closeDocument_rethrows(saveChanges) ==
  In("Failed to close document.", <<Do("Close", <<OrElse(saveChanges, 0)>>)>>)

\* WordService.closeDocument (lines 155-166)
closeDocument(saveChanges) ==
  <<Swallowed(Do("Close", <<OrElse(saveChanges, 0)>>))>>

(* Text methods, lines 197-328 *)
insertText(nd, noDoc) ==
  <<Acquire>> \o
  In("Failed to insert text.", Selection(nd, noDoc) \o <<Do("TypeText", <<>>)>>)
\* A faulty variant: a count of 0 is passed on to Delete.
deleteText_zeroDeletes(nd, noDoc, count, unit) ==
  <<Acquire>> \o
  In("Failed to delete text.",
     IF count >= 0
       THEN Selection(nd, noDoc) \o <<Do("Delete", <<unit, count>>)>>
     ELSE Selection(nd, noDoc) \o <<Do("MoveStart", <<unit, count>>)>> \o
          Selection(nd, noDoc) \o <<Do("Delete", <<unit, -count>>)>>)

\* WordService.deleteText (lines 212-230)
deleteText(nd, noDoc, count, unit) ==
  <<Acquire>> \o
  In("Failed to delete text.",
     IF count > 0
       THEN Selection(nd, noDoc) \o <<Do("Delete", <<unit, count>>)>>
     ELSE IF count < 0
       THEN Selection(nd, noDoc) \o <<Do("MoveStart", <<unit, count>>)>> \o
            Selection(nd, noDoc) \o <<Do("Delete", <<unit, -count>>)>>
     ELSE <<>>)
\* A faulty variant: the two replace options are exchanged.
findAndReplace_swapped(nd, noDoc, matchCase, matchWholeWord, replaceAll) ==
  getActiveDocument(nd, noDoc) \o
  In("Failed to find and replace text.",
     <<Get("Content"), Get("Find"), Do("Find.ClearFormatting", <<>>),
       Get("Replacement"), Do("Replacement.ClearFormatting", <<>>),
       Set("Find.Text", 0), Get("Replacement"), Set("Replacement.Text", 0),
       Set("Forward", 1), Set("Wrap", 1), Set("Format", 0),
       Set("MatchCase", IF matchCase THEN 1 ELSE 0),
       Set("MatchWholeWord", IF matchWholeWord THEN 1 ELSE 0),
       Set("MatchWildcards", 0), Set("MatchSoundsLike", 0),
       Set("MatchAllWordForms", 0),
       Do("Find.Execute", <<IF replaceAll THEN 1 ELSE 2>>)>>)

\* WordService.findAndReplace (lines 241-277)
findAndReplace(nd, noDoc, matchCase, matchWholeWord, replaceAll) ==
  getActiveDocument(nd, noDoc) \o
  In("Failed to find and replace text.",
     <<Get("Content"), Get("Find"), Do("Find.ClearFormatting", <<>>),
       Get("Replacement"), Do("Replacement.ClearFormatting", <<>>),
       Set("Find.Text", 0), Get("Replacement"), Set("Replacement.Text", 0),
       Set("Forward", 1), Set("Wrap", 1), Set("Format", 0),
       Set("MatchCase", IF matchCase THEN 1 ELSE 0),
       Set("MatchWholeWord", IF matchWholeWord THEN 1 ELSE 0),
       Set("MatchWildcards", 0), Set("MatchSoundsLike", 0),
       Set("MatchAllWordForms", 0),
       Do("Find.Execute", <<IF replaceAll THEN 2 ELSE 1>>)>>)
toggleBold(nd, noDoc) ==
  <<Acquire>> \o
  In("Failed to toggle bold formatting.",
     Selection(nd, noDoc) \o <<Get("Font"), Set("Bold", 9999998)>>)
toggleItalic(nd, noDoc) ==
  <<Acquire>> \o
  In("Failed to toggle italic formatting.",
     Selection(nd, noDoc) \o <<Get("Font"), Set("Italic", 9999998)>>)
\* A faulty variant: any underline is turned off, and set only from none.
toggleUnderline_offWhenAny(nd, noDoc, underlineStyle, underline) ==
  <<Acquire>> \o
  In("Failed to toggle underline formatting.",
     Selection(nd, noDoc) \o
     <<Get("Font"), Get("Underline"),
       Set("Underline", IF underline # 0 THEN 0 ELSE underlineStyle)>>)

\* underline: the style font.Underline reads
toggleUnderline(nd, noDoc, underlineStyle, underline) ==
  <<Acquire>> \o
  In("Failed to toggle underline formatting.",
     Selection(nd, noDoc) \o
     <<Get("Font"), Get("Underline"),
       Set("Underline", IF underline = underlineStyle THEN 0 ELSE underlineStyle)>>)

(* Paragraph methods, lines 336-436 *)
ParagraphFormat(nd, noDoc) == Selection(nd, noDoc) \o <<Get("ParagraphFormat")>>
setParagraphAlignment(nd, noDoc, alignment) ==
  <<Acquire>> \o In("Failed to set paragraph alignment.",
                    ParagraphFormat(nd, noDoc) \o <<Set("Alignment", alignment)>>)
setParagraphLeftIndent(nd, noDoc, indentPoints) ==
  <<Acquire>> \o In("Failed to set left indent.",
                    ParagraphFormat(nd, noDoc) \o <<Set("LeftIndent", indentPoints)>>)
setParagraphRightIndent(nd, noDoc, indentPoints) ==
  <<Acquire>> \o In("Failed to set right indent.",
                    ParagraphFormat(nd, noDoc) \o <<Set("RightIndent", indentPoints)>>)
setParagraphFirstLineIndent(nd, noDoc, indentPoints) ==
  <<Acquire>> \o In("Failed to set first line indent.",
                    ParagraphFormat(nd, noDoc) \o <<Set("FirstLineIndent", indentPoints)>>)
setParagraphSpaceBefore(nd, noDoc, spacePoints) ==
  <<Acquire>> \o In("Failed to set space before paragraph.",
                    ParagraphFormat(nd, noDoc) \o <<Set("SpaceBefore", spacePoints)>>)
setParagraphSpaceAfter(nd, noDoc, spacePoints) ==
  <<Acquire>> \o In("Failed to set space after paragraph.",
                    ParagraphFormat(nd, noDoc) \o <<Set("SpaceAfter", spacePoints)>>)
\* A faulty variant: a value given is assigned whatever the rule.
setParagraphLineSpacing_valueAlways(nd, noDoc, lineSpacingRule, lineSpacingValue) ==
  <<Acquire>> \o
  In("Failed to set line spacing.",
     ParagraphFormat(nd, noDoc) \o <<Set("LineSpacingRule", lineSpacingRule)>> \o
     IF Given(lineSpacingValue)
       THEN <<Set("LineSpacing", lineSpacingValue[1])>> ELSE <<>>)

\* WordService.setParagraphLineSpacing (lines 422-436)
setParagraphLineSpacing(nd, noDoc, lineSpacingRule, lineSpacingValue) ==
  <<Acquire>> \o
  In("Failed to set line spacing.",
     ParagraphFormat(nd, noDoc) \o <<Set("LineSpacingRule", lineSpacingRule)>> \o
     IF Given(lineSpacingValue) /\ lineSpacingRule >= 3
       THEN <<Set("LineSpacing", lineSpacingValue[1])>> ELSE <<>>)

(* Table methods, lines 447-579 *)
addTable(nd, noDoc, numRows, numCols) ==
  <<Acquire>> \o
  In("Failed to add table.",
     Selection(nd, noDoc) \o
     <<Get("Tables"), Get("Range"), Do("Tables.Add", <<numRows, numCols>>)>>)
\* doc.Tables.Count, the bounds check, doc.Tables.Item(tableIndex)
TableAt(tableIndex, nTables) ==
  <<Get("Tables"), Get("Tables.Count")>> \o
  CheckIndex(tableIndex, nTables, "Table index is out of bounds.") \o
  <<Get("Tables"), Item("Tables.Item", tableIndex)>>
\* Word has no cell outside the table's rows and columns: Cell throws there.
getTableCell(nd, noDoc, tableIndex, rowIndex, colIndex, nTables, nRows, nCols) ==
  getActiveDocument(nd, noDoc) \o
  In("Failed to get cell.",
     TableAt(tableIndex, nTables) \o
     <<IF rowIndex \in 1..nRows /\ colIndex \in 1..nCols
         THEN Step("get", "Cell", <<rowIndex, colIndex>>)
         ELSE Broken(Step("get", "Cell", <<rowIndex, colIndex>>))>>)
setTableCellText(nd, noDoc, tableIndex, rowIndex, colIndex, nTables, nRows, nCols) ==
  In("Failed to set cell text.",
     getTableCell(nd, noDoc, tableIndex, rowIndex, colIndex, nTables, nRows, nCols) \o
     <<Get("Range"), Set("Range.Text", 0)>>)
\* A faulty variant: an index one past the last item is rejected.
InsertBefore_noAppend(coll, before, count, fragment) ==
  IF Given(before)
    THEN <<Get(coll), Get(coll \o ".Count")>> \o
         (IF before[1] <= 0 \/ before[1] > count
            THEN <<Throw(fragment)>> ELSE <<>>) \o
         <<Get(coll), Get(coll \o ".Count"),
           Get(coll), Item(coll \o ".Item", before[1]),
           Get(coll), Do(coll \o ".Add", <<before[1]>>)>>
    ELSE <<Get(coll), Do(coll \o ".Add", <<>>)>>

\* Rows or Columns of the table: `coll` is "Rows" or "Columns", `count` its
\* Count.  Add takes <<b>> for the item at b, <<0>> for an explicit undefined
\* and <<>> when called without argument.
InsertBefore(coll, before, count, fragment) ==
  IF Given(before)
    THEN <<Get(coll), Get(coll \o ".Count")>> \o
         (IF before[1] <= 0 \/ before[1] > count + 1
            THEN <<Throw(fragment)>> ELSE <<>>) \o
         <<Get(coll), Get(coll \o ".Count")>> \o
         (IF before[1] <= count
            THEN <<Get(coll), Item(coll \o ".Item", before[1]),
                   Get(coll), Do(coll \o ".Add", <<before[1]>>)>>
            ELSE <<Get(coll), Do(coll \o ".Add", <<0>>)>>)
    ELSE <<Get(coll), Do(coll \o ".Add", <<>>)>>
insertTableRow(nd, noDoc, tableIndex, beforeRowIndex, nTables, nRows) ==
  getActiveDocument(nd, noDoc) \o
  In("Failed to insert table row.",
     TableAt(tableIndex, nTables) \o
     InsertBefore("Rows", beforeRowIndex, nRows,
                  "Row index is out of bounds for insertion."))
insertTableColumn(nd, noDoc, tableIndex, beforeColIndex, nTables, nCols) ==
  getActiveDocument(nd, noDoc) \o
  In("Failed to insert table column.",
     TableAt(tableIndex, nTables) \o
     InsertBefore("Columns", beforeColIndex, nCols,
                  "Column index is out of bounds for insertion."))
applyTableAutoFormat(nd, noDoc, tableIndex, applyFormatting, nTables) ==
  getActiveDocument(nd, noDoc) \o
  In("Failed to apply table auto format.",
     TableAt(tableIndex, nTables) \o
     <<Do("AutoFormat", <<OrElse(applyFormatting, 1+2+4+8+16+32+64+128+256)>>)>>)

(* Image methods, lines 589-650 *)
insertPicture(nd, noDoc, fileExists) ==
  <<Acquire>> \o
  In("Failed to insert picture.",
     Selection(nd, noDoc) \o
     <<Get("InlineShapes"), Get("Range"),
       IF fileExists THEN Do("InlineShapes.AddPicture", <<>>)
       ELSE Broken(Do("InlineShapes.AddPicture", <<>>))>>)
\* A faulty variant: sizes that are not positive are assigned as well.
SizeWrites_nonPositiveWritten(heightPoints, widthPoints, lockAspectRatio, originalHeight, originalWidth) ==
  IF heightPoints > 0 /\ widthPoints > 0 /\ lockAspectRatio
    THEN IF widthPoints * originalHeight > heightPoints * originalWidth
           THEN <<Set("Width", widthPoints)>>
           ELSE <<Set("Height", heightPoints)>>
  ELSE <<Set("Height", heightPoints), Set("Width", widthPoints)>>

\* A faulty variant: on equal ratios the width is assigned.
SizeWrites_tieToWidth(heightPoints, widthPoints, lockAspectRatio, originalHeight, originalWidth) ==
  IF heightPoints > 0 /\ widthPoints > 0
    THEN IF lockAspectRatio
           THEN IF widthPoints * originalHeight >= heightPoints * originalWidth
                  THEN <<Set("Width", widthPoints)>>
                  ELSE <<Set("Height", heightPoints)>>
           ELSE <<Set("Height", heightPoints), Set("Width", widthPoints)>>
  ELSE IF heightPoints > 0 THEN <<Set("Height", heightPoints)>>
  ELSE IF widthPoints > 0 THEN <<Set("Width", widthPoints)>>
  ELSE <<>>

\* lines 624-643, with the shape's original size (positive) as read at 618-619;
\* widthPoints / originalWidth > heightPoints / originalHeight is compared by
\* cross-multiplication
SizeWrites(heightPoints, widthPoints, lockAspectRatio, originalHeight, originalWidth) ==
  IF heightPoints > 0 /\ widthPoints > 0
    THEN IF lockAspectRatio
           THEN IF widthPoints * originalHeight > heightPoints * originalWidth
                  THEN <<Set("Width", widthPoints)>>
                  ELSE <<Set("Height", heightPoints)>>
           ELSE <<Set("Height", heightPoints), Set("Width", widthPoints)>>
  ELSE IF heightPoints > 0 THEN <<Set("Height", heightPoints)>>
  ELSE IF widthPoints > 0 THEN <<Set("Width", widthPoints)>>
  ELSE <<>>
setInlinePictureSize(nd, noDoc, shapeIndex, heightPoints, widthPoints, lockAspectRatio, nShapes, originalHeight, originalWidth) ==
  getActiveDocument(nd, noDoc) \o
  In("Failed to set inline picture size.",
     <<Get("InlineShapes"), Get("InlineShapes.Count")>> \o
     CheckIndex(shapeIndex, nShapes, "InlineShape index is out of bounds.") \o
     <<Get("InlineShapes"), Item("InlineShapes.Item", shapeIndex),
       Get("Height"), Get("Width"),
       Set("LockAspectRatio", IF lockAspectRatio THEN -1 ELSE 0)>> \o
     SizeWrites(heightPoints, widthPoints, lockAspectRatio,
                originalHeight, originalWidth))

(* Header/footer methods, lines 663-707 *)
\* A faulty variant: the Exists flag is read and not acted on.
getHeaderFooter_ignoresExists(nd, noDoc, sectionIndex, headerFooterType, isHeader, nSections, exists) ==
  getActiveDocument(nd, noDoc) \o
  In("Failed to get header/footer.",
     <<Get("Sections"), Get("Sections.Count")>> \o
     CheckIndex(sectionIndex, nSections, "Section index is out of bounds.") \o
     <<Get("Sections"), Item("Sections.Item", sectionIndex),
       Get(IF isHeader THEN "Headers" ELSE "Footers")>> \o
     (IF headerFooterType < 1 \/ headerFooterType > 3
        THEN <<Throw("Invalid header/footer type.")>> ELSE <<>>) \o
     <<Item("HeadersFooters.Item", headerFooterType), Get("Exists")>>)

\* exists: the Exists flag of the header or footer looked up
getHeaderFooter(nd, noDoc, sectionIndex, headerFooterType, isHeader, nSections, exists) ==
  getActiveDocument(nd, noDoc) \o
  In("Failed to get header/footer.",
     <<Get("Sections"), Get("Sections.Count")>> \o
     CheckIndex(sectionIndex, nSections, "Section index is out of bounds.") \o
     <<Get("Sections"), Item("Sections.Item", sectionIndex),
       Get(IF isHeader THEN "Headers" ELSE "Footers")>> \o
     (IF headerFooterType < 1 \/ headerFooterType > 3
        THEN <<Throw("Invalid header/footer type.")>> ELSE <<>>) \o
     <<Item("HeadersFooters.Item", headerFooterType), Get("Exists")>> \o
     (IF exists THEN <<>>
      ELSE <<Throw("The requested type does not exist or is not active.")>>))
\* the catch at 702-706 rethrows the error unchanged
setHeaderFooterText(nd, noDoc, sectionIndex, headerFooterType, isHeader, nSections, exists) ==
  getHeaderFooter(nd, noDoc, sectionIndex, headerFooterType, isHeader, nSections, exists)
  \o <<Get("Range"), Set("Range.Text", 0)>>

(* Page setup methods, lines 718-760 *)
\* A faulty variant: the left and right margins are assigned first.
setPageMargins_reordered(nd, noDoc, topPoints, bottomPoints, leftPoints, rightPoints) ==
  getActiveDocument(nd, noDoc) \o
  In("Failed to set page margins.",
     <<Get("PageSetup"), Set("LeftMargin", leftPoints), Set("RightMargin", rightPoints),
       Set("TopMargin", topPoints), Set("BottomMargin", bottomPoints)>>)

\* WordService.setPageMargins (lines 717-730)
setPageMargins(nd, noDoc, topPoints, bottomPoints, leftPoints, rightPoints) ==
  getActiveDocument(nd, noDoc) \o
  In("Failed to set page margins.",
     <<Get("PageSetup"), Set("TopMargin", topPoints), Set("BottomMargin", bottomPoints),
       Set("LeftMargin", leftPoints), Set("RightMargin", rightPoints)>>)
setPageOrientation(nd, noDoc, orientation) ==
  getActiveDocument(nd, noDoc) \o
  In("Failed to set page orientation.",
     <<Get("PageSetup"), Set("Orientation", orientation)>>)
setPaperSize(nd, noDoc, paperSize) ==
  getActiveDocument(nd, noDoc) \o
  In("Failed to set paper size.", <<Get("PageSetup"), Set("PaperSize", paperSize)>>)

(* Cursor and selection methods, lines 767-902 *)
moveCursorToStart(nd, noDoc) ==
  <<Acquire>> \o In("Failed to move cursor to start.",
                    Selection(nd, noDoc) \o <<Do("HomeKey", <<6>>)>>)
moveCursorToEnd(nd, noDoc) ==
  <<Acquire>> \o In("Failed to move cursor to end.",
                    Selection(nd, noDoc) \o <<Do("EndKey", <<6>>)>>)
moveCursor(nd, noDoc, unit, count, extend) ==
  <<Acquire>> \o
  In("Failed to move cursor.",
     Selection(nd, noDoc) \o
     <<Do("MoveRight", <<unit, count, IF extend THEN 1 ELSE 0>>)>>)
selectAll(nd, noDoc) ==
  <<Acquire>> \o In("Failed to select all.",
                    Selection(nd, noDoc) \o <<Do("WholeStory", <<>>)>>)
selectParagraph(nd, noDoc, paragraphIndex, nParagraphs) ==
  getActiveDocument(nd, noDoc) \o
  In("Failed to select paragraph.",
     <<Get("Paragraphs"), Get("Paragraphs.Count")>> \o
     CheckIndex(paragraphIndex, nParagraphs, "Paragraph index is out of bounds.") \o
     <<Get("Paragraphs"), Item("Paragraphs.Item", paragraphIndex),
       Get("Range"), Do("Range.Select", <<>>)>>)
collapseSelection(nd, noDoc, toStart) ==
  <<Acquire>> \o In("Failed to collapse selection.",
                    Selection(nd, noDoc) \o <<Do("Collapse", <<IF toStart THEN 1 ELSE 0>>)>>)
getSelectionText(nd, noDoc) ==
  <<Acquire>> \o In("Failed to get selection text.",
                    Selection(nd, noDoc) \o <<Get("Text")>>)
getSelectionInfo(nd, noDoc) ==
  <<Acquire>> \o
  In("Failed to get selection info.",
     Selection(nd, noDoc) \o
     <<Get("Text"), Get("Start"), Get("End"), Get("Type"), Get("Type")>>)

(***************************************************************************)
(* index.ts: tool registration                                             *)
(***************************************************************************)
DocumentTools ==
  {"word_createDocument", "word_openDocument", "word_saveActiveDocument",
   "word_saveActiveDocumentAs", "word_closeActiveDocument"}
TextTools ==
  {"word_insertText", "word_deleteText", "word_findAndReplace",
   "word_toggleBold", "word_toggleItalic", "word_toggleUnderline"}
ParagraphTools ==
  {"word_setParagraphAlignment", "word_setParagraphLeftIndent",
   "word_setParagraphRightIndent", "word_setParagraphFirstLineIndent",
   "word_setParagraphSpaceBefore", "word_setParagraphSpaceAfter",
   "word_setParagraphLineSpacing"}
TableTools ==
  {"word_addTable", "word_setTableCellText", "word_insertTableRow",
   "word_insertTableColumn", "word_applyTableAutoFormat"}
ImageTools == {"word_insertPicture", "word_setInlinePictureSize"}
HeaderFooterTools == {"word_setHeaderFooterText"}
PageSetupTools ==
  {"word_setPageMargins", "word_setPageOrientation", "word_setPaperSize"}
CursorSelectionTools ==
  {"word_moveCursorToStart", "word_moveCursorToEnd", "word_moveCursor",
   "word_selectAll", "word_selectParagraph", "word_collapseSelection",
   "word_getSelectionText", "word_getSelectionInfo"}

\* Each register function adds its tools to the server's registry.
registerDocumentTools(reg) == reg \cup DocumentTools
registerTextTools(reg) == reg \cup TextTools
registerParagraphTools(reg) == reg \cup ParagraphTools
registerTableTools(reg) == reg \cup TableTools
registerImageTools(reg) == reg \cup ImageTools
registerHeaderFooterTools(reg) == reg \cup HeaderFooterTools
registerPageSetupTools(reg) == reg \cup PageSetupTools
registerCursorSelectionTools(reg) == reg \cup CursorSelectionTools

\* The registration calls index.ts makes, in order (lines 938-944).
RegisterAll(reg) ==
  registerPageSetupTools(registerHeaderFooterTools(registerImageTools(
    registerTableTools(registerParagraphTools(registerTextTools(
      registerDocumentTools(reg)))))))

(***************************************************************************)
(* index.ts: startServer                                                   *)
(***************************************************************************)
\* Values of MCP_TRANSPORT: unset defaults to "stdio"; "other" is any other.
TransportModes == {"stdio", "sse", "other"}

\* A faulty variant: an unsupported mode falls back to stdio.
startServer_fallback(mode, connect, listen) ==
  IF mode = "sse"
    THEN IF listen = "ok"
           THEN [phase |-> "sse", exitCode |-> -1, failure |-> "none"]
           ELSE [phase |-> "exited", exitCode |-> 1, failure |-> "listen"]
  ELSE IF connect = "ok"
    THEN [phase |-> "stdio", exitCode |-> -1, failure |-> "none"]
  ELSE [phase |-> "exited", exitCode |-> 1, failure |-> "connect"]

\* startServer: the phase reached and the exit code (-1: still running).
\* `connect` is the outcome of mcpServer.connect on the stdio transport.
\* `listen` is the outcome of httpServer.listen: the server has no 'error'
\* listener, so a failure to bind the port is an unhandled 'error' event,
\* which ends a Node process with exit code 1.
startServer(mode, connect, listen) ==
  IF mode = "stdio"
    THEN IF connect = "ok"
           THEN [phase |-> "stdio", exitCode |-> -1, failure |-> "none"]
           \* lines 1027-1030: startServer().catch exits with 1
           ELSE [phase |-> "exited", exitCode |-> 1, failure |-> "connect"]
  ELSE IF mode = "sse"
    THEN IF listen = "ok"
           THEN [phase |-> "sse", exitCode |-> -1, failure |-> "none"]
           ELSE [phase |-> "exited", exitCode |-> 1, failure |-> "listen"]
  \* lines 1021-1024: unsupported mode
  ELSE [phase |-> "exited", exitCode |-> 1, failure |-> "none"]

\* Session ids a POST may carry: 0 is a missing sessionId, -1 the name of a
\* member every object inherits ("constructor", "toString", ...).
MissingSid == 0
InheritedSid == -1
PostSids == (1..(MaxConns + 1)) \cup {MissingSid, InheritedSid}

\* transports[sessionId] on the plain object: 0 is undefined, -1 an inherited
\* member (truthy, and no transport).
Lookup(table, sid) ==
  IF sid \in DOMAIN table THEN table[sid]
  ELSE IF sid = InheritedSid THEN -1
  ELSE 0

\* Outcomes of transport.handlePostMessage.
PostOutcomes == {"ok", "throws", "throwsAfterHeaders"}

\* A faulty variant: an unknown session id falls back to some open transport.
postMessages_fallback(table, sid, outcome) ==
  LET t == IF sid \in DOMAIN table THEN table[sid]
           ELSE IF DOMAIN table # {} THEN table[CHOOSE k \in DOMAIN table : TRUE]
           ELSE 0
  IN IF t # 0
       THEN [status |-> IF outcome = "throws" THEN 400 ELSE 200, to |-> t,
             body |-> IF outcome = "throws" THEN "Error processing message" ELSE "by transport"]
       ELSE [status |-> 400, to |-> 0, body |-> "No transport found for sessionId"]

\* The POST /messages handler (lines 994-1013): the response status (200 stands
\* for whatever the transport itself answered) and the transport the message
\* was handed to (0: none).
postMessages(table, sid, outcome) ==
  LET transport == Lookup(table, sid)
  IN IF transport # 0
       THEN IF transport = -1
              \* not a transport: calling handlePostMessage throws a TypeError
              THEN [status |-> 400, to |-> 0, body |-> "Error processing message"]
            ELSE IF outcome = "ok"
              THEN [status |-> 200, to |-> transport, body |-> "by transport"]
            ELSE IF outcome = "throws"
              THEN [status |-> 400, to |-> transport, body |-> "Error processing message"]
            ELSE [status |-> 200, to |-> transport, body |-> "by transport"]
       ELSE [status |-> 400, to |-> 0, body |-> "No transport found for sessionId"]

\* A faulty variant: the close listener deletes nothing.
sseClose_keep(table, sid) == table

\* res.on("close") of a connection (lines 972-977).
sseClose(table, sid) == [k \in DOMAIN table \ {sid} |-> table[k]]

\* A faulty variant: the new transport replaces every transport of the table.
sseAccept_overwrites(table, sid) == [k \in DOMAIN table \cup {sid} |-> sid]

\* GET /sse up to its await (lines 967-980): the transport of the new
\* connection is stored under its own session id.
sseAccept(table, sid) == [k \in DOMAIN table \cup {sid} |-> IF k = sid THEN sid ELSE table[k]]

ServingInit ==
  /\ transportMode = "stdio"
  /\ startFailure = "none"
  /\ phase = "stdio"
  /\ exitCode = -1
  /\ registry = RegisterAll({})
  /\ nextConn = 0
  /\ connState = <<>>
  /\ transports = <<>>
  /\ lastPost = [tick |-> 0, sid |-> 0, issued |-> FALSE, status |-> 0, to |-> 0,
                 body |-> "none"]

\* No call made yet, or the outcome of the last one has been consumed.
NoInv ==
  [layer |-> "none", op |-> "none", a |-> <<>>, env |-> <<>>, nd |-> 0,
   err |-> NoError, calls |-> <<>>, done |-> <<>>, svc |-> {},
   result |-> [isError |-> FALSE, content |-> <<>>]]
\* No pair of invocations in flight.
NoConc == [docs |-> <<>>, next |-> 0, text |-> <<>>, inv |-> <<>>]
OpsIdle ==
  /\ nDocs = 0
  /\ pc = "idle"
  /\ inv = NoInv
  /\ conc = NoConc

(***************************************************************************)
(* The handle manager on its own: acquire and quit in any order.           *)
(***************************************************************************)
Init ==
  /\ wordApp = 0
  /\ created = 0
  /\ running = {}
  /\ trace = <<>>
  /\ hlast = [op |-> "none", before |-> 0, createdBefore |-> 0, probe |-> "ok",
              ret |-> 0, threw |-> FALSE, err |-> NoError]
  /\ ServingInit
  /\ OpsIdle

GetWordApplication ==
  \E probe \in ProbeOutcomes, ctor \in CallOutcomes, vis \in CallOutcomes :
    /\ Constructs(wordApp, probe, ctor) => created < MaxInst
    /\ LET r == getWordApplication(wordApp, created, probe, ctor, vis)
       IN /\ wordApp' = r.wordApp
          /\ created' = r.created
          /\ running' = running \cup ((1..r.created) \ (1..created))
          /\ trace' = r.trace
          /\ hlast' = [op |-> "getWordApplication", before |-> wordApp,
                       createdBefore |-> created,
                       probe |-> IF wordApp = 0 THEN "none" ELSE probe,
                       ret |-> r.ret, threw |-> r.ret = 0, err |-> r.err]
    /\ UNCHANGED srvVars
    /\ UNCHANGED opVars

QuitWord ==
  \E quit \in CallOutcomes :
    LET r == quitWord(wordApp, quit)
    IN /\ UNCHANGED srvVars
       /\ UNCHANGED opVars
       /\ wordApp' = r.wordApp
       /\ created' = created
       /\ running' = running \ r.quitted
       /\ trace' = r.trace
       /\ hlast' = [op |-> "quitWord", before |-> wordApp,
                    createdBefore |-> created,
                    probe |-> IF wordApp = 0 THEN "none" ELSE quit,
                    ret |-> 0, threw |-> r.threw, err |-> NoError]

Next == GetWordApplication \/ QuitWord

Spec == Init /\ [][Next]_vars


(***************************************************************************)
(* The process from its start: index.ts runs, then serves.                 *)
(***************************************************************************)
HandleIdle ==
  /\ wordApp = 0
  /\ created = 0
  /\ running = {}
  /\ trace = <<>>
  /\ hlast = [op |-> "none", before |-> 0, createdBefore |-> 0, probe |-> "ok",
              ret |-> 0, threw |-> FALSE, err |-> NoError]
  /\ OpsIdle

InitServer ==
  /\ HandleIdle
  /\ transportMode \in TransportModes
  /\ startFailure = "none"
  /\ phase = "boot"
  /\ exitCode = -1
  /\ registry = {}
  /\ nextConn = 0
  /\ connState = <<>>
  /\ transports = <<>>
  /\ lastPost = [tick |-> 0, sid |-> 0, issued |-> FALSE, status |-> 0, to |-> 0,
                 body |-> "none"]

srvFrame == UNCHANGED <<wordApp, created, running, trace, hlast, nDocs, pc, inv, conc>>

\* The module body of index.ts: registration (938-944), then startServer().
Main ==
  \E connect \in CallOutcomes, listen \in CallOutcomes :
    /\ phase = "boot"
    /\ registry' = RegisterAll(registry)
    /\ LET r == startServer(transportMode, connect, listen)
       IN phase' = r.phase /\ exitCode' = r.exitCode /\ startFailure' = r.failure
    /\ UNCHANGED <<transportMode, nextConn, connState, transports, lastPost>>
    /\ srvFrame

\* GET /sse, up to the await of mcpServer.connect.
SseAccept ==
  /\ phase = "sse"
  /\ nextConn < MaxConns
  /\ nextConn' = nextConn + 1
  /\ connState' = Append(connState, "connecting")
  /\ transports' = sseAccept(transports, nextConn + 1)
  /\ UNCHANGED <<transportMode, startFailure, phase, exitCode, registry, lastPost>>
  /\ srvFrame

\* GET /sse after the await: connected, or the catch ends the response with 500.
SseConnectDone ==
  \E c \in 1..nextConn, connect \in CallOutcomes :
    /\ phase = "sse"
    /\ connState[c] = "connecting"
    /\ connState' = [connState EXCEPT ![c] = IF connect = "ok" THEN "connected" ELSE "failed"]
    /\ UNCHANGED <<transportMode, startFailure, phase, exitCode, registry, nextConn, transports, lastPost>>
    /\ srvFrame

\* The close event of a connection's response.
SseClose ==
  \E c \in 1..nextConn :
    /\ phase = "sse"
    /\ connState[c] # "closed"
    /\ connState' = [connState EXCEPT ![c] = "closed"]
    /\ transports' = sseClose(transports, c)
    /\ UNCHANGED <<transportMode, startFailure, phase, exitCode, registry, nextConn, lastPost>>
    /\ srvFrame

\* POST /messages.
PostMessage ==
  \E sid \in PostSids, outcome \in PostOutcomes :
    /\ phase = "sse"
    /\ LET r == postMessages(transports, sid, outcome)
       IN lastPost' = [tick |-> 1 - lastPost.tick, sid |-> sid,
                       issued |-> sid \in 1..nextConn, status |-> r.status,
                       to |-> r.to, body |-> r.body]
    /\ UNCHANGED <<transportMode, startFailure, phase, exitCode, registry, nextConn, connState, transports>>
    /\ srvFrame

NextServer == Main \/ SseAccept \/ SseConnectDone \/ SseClose \/ PostMessage

SpecServer == InitServer /\ [][NextServer]_vars


(***************************************************************************)
(* Calls of the service methods and of the tool handlers                   *)
(***************************************************************************)
ServiceMethods ==
  {"createDocument", "openDocument", "saveActiveDocument", "saveActiveDocumentAs",
   "closeDocument", "insertText", "deleteText", "findAndReplace", "toggleBold",
   "toggleItalic", "toggleUnderline", "setParagraphAlignment",
   "setParagraphLeftIndent", "setParagraphRightIndent",
   "setParagraphFirstLineIndent", "setParagraphSpaceBefore",
   "setParagraphSpaceAfter", "setParagraphLineSpacing", "addTable",
   "getTableCell", "setTableCellText", "insertTableRow", "insertTableColumn",
   "applyTableAutoFormat", "insertPicture", "setInlinePictureSize",
   "getHeaderFooter", "setHeaderFooterText", "setPageMargins",
   "setPageOrientation", "setPaperSize", "moveCursorToStart", "moveCursorToEnd",
   "moveCursor", "selectAll", "selectParagraph", "collapseSelection",
   "getSelectionText", "getSelectionInfo", "getActiveDocument"}

\* Values the calls are tried with.  What a document holds is read only when
\* one is open, so with none (nd = 0) a single value stands for it.
Indices == 0..(MaxN + 2)
Sizes(nd) == IF nd = 0 THEN {0} ELSE 0..MaxN
Dims(nd) == IF nd = 0 THEN {1} ELSE 1..MaxN
Flags(nd) == IF nd = 0 THEN {TRUE} ELSE BOOLEAN
\* Number of matches of the search text in the document; Find.Execute returns
\* whether there was one.
Occurrences(nd) == IF nd = 0 THEN {1} ELSE 0..(MaxN + 1)
Points == {-1, 0, 1, 2}
OriginalSizes(nd) == IF nd = 0 THEN {<<1, 1>>} ELSE {<<1, 1>>, <<1, 2>>, <<2, 1>>}

\* Selection.Delete(unit, count) on a selection that is not collapsed: count
\* units are deleted from its start, or the selection counts as the first of
\* the count units and count - 1 more are deleted after its end.
DeleteModes == {"fromStart", "selectionFirst"}

\* Inputs of one call: the arguments `a` in the order of the method's
\* parameters, what app.ActiveDocument does without a document, and the part
\* `env` of the document's state the method reads.
P(as, envs, nd) ==
  {[a |-> a, noDoc |-> d, env |-> e] :
     a \in as, e \in envs, d \in (IF nd = 0 THEN NoDocModes ELSE {"null"})}

Params(m, nd) ==
  CASE m = "createDocument" -> P({<<>>}, {<<>>}, 1)
    [] m = "openDocument" -> P({<<>>}, {<<TRUE>>, <<FALSE>>}, 1)
    [] m = "closeDocument" -> P({<< <<>> >>, << <<-1>> >>}, {<<>>}, 1)
    [] m = "saveActiveDocumentAs" -> P({<< <<>> >>, << <<17>> >>}, {<<>>}, nd)
    [] m = "deleteText" ->
         P({<<count, unit>> : count \in {-1, 0, 1}, unit \in {1, 2}},
           {<<MaxN, 1, "fromStart">>}, nd)
         \cup (IF nd = 0 THEN {}
               ELSE P({<<count, 1>> : count \in {-2, -1, 1, 2}},
                      {<<MaxN, at, mode>> : at \in 0..MaxN, mode \in DeleteModes}, nd))
    [] m = "findAndReplace" ->
         P({<<matchCase, FALSE, replaceAll>> : matchCase \in BOOLEAN, replaceAll \in BOOLEAN},
           {<<occurrences > 0, occurrences>> : occurrences \in Occurrences(nd)}, nd)
    [] m = "toggleUnderline" ->
         P({<<1>>, <<4>>}, {<<u>> : u \in (IF nd = 0 THEN {0} ELSE {0, 1, 4})}, nd)
    [] m = "setParagraphAlignment" -> P({<<0>>, <<3>>}, {<<>>}, nd)
    [] m \in {"setParagraphLeftIndent", "setParagraphRightIndent",
              "setParagraphSpaceBefore", "setParagraphSpaceAfter"} ->
         P({<<0>>, <<12>>}, {<<>>}, nd)
    [] m = "setParagraphFirstLineIndent" -> P({<<-12>>, <<12>>}, {<<>>}, nd)
    [] m = "setParagraphLineSpacing" ->
         P({<<rule, value>> : rule \in {0, 2, 3, 5}, value \in {<<>>, <<12>>}}, {<<>>}, nd)
    [] m = "addTable" -> P({<<1, 1>>, <<2, 3>>}, {<<>>}, nd)
    [] m \in {"getTableCell", "setTableCellText"} ->
         P({<<i, 1, 1>> : i \in Indices}, {<<n, 1, 1>> : n \in Sizes(nd)}, nd)
         \cup P({<<1, r, 1>> : r \in 0..(MaxN + 1)} \cup {<<1, 1, c>> : c \in 0..(MaxN + 1)},
                {<<1, d, d>> : d \in Dims(nd)}, nd)
    [] m \in {"insertTableRow", "insertTableColumn"} ->
         P({<<i, <<>>>> : i \in Indices}, {<<n, 1>> : n \in Sizes(nd)}, nd)
         \cup P({<<1, <<b>>>> : b \in Indices}, {<<1, d>> : d \in Dims(nd)}, nd)
    [] m = "applyTableAutoFormat" ->
         P({<<i, f>> : i \in Indices, f \in {<<>>, <<1>>}}, {<<n>> : n \in Sizes(nd)}, nd)
    [] m = "insertPicture" -> P({<<>>}, {<<b>> : b \in Flags(nd)}, nd)
    \* env: InlineShapes.Count, the shape's Height, Width and LockAspectRatio
    [] m = "setInlinePictureSize" ->
         P({<<i, 1, 1, TRUE>> : i \in Indices} \cup {<<i, 0, -1, TRUE>> : i \in Indices},
           {<<n, 1, 1, -1>> : n \in Sizes(nd)}, nd)
         \cup P({<<1, h, w, l>> : h \in Points, w \in Points, l \in BOOLEAN},
                {<<1, o[1], o[2], -1>> : o \in OriginalSizes(nd)}, nd)
         \cup (IF nd = 0 THEN {}
               ELSE P({<<1, h, w, l>> : h \in {0, 1}, w \in {0, 1}, l \in BOOLEAN},
                      {<<1, 1, 1, 0>>}, nd))
    [] m \in {"getHeaderFooter", "setHeaderFooterText"} ->
         P({<<i, 1, TRUE>> : i \in Indices}, {<<n, TRUE>> : n \in Sizes(nd)}, nd)
         \cup P({<<1, t, h>> : t \in {0, 1, 3, 4}, h \in BOOLEAN},
                {<<1, e>> : e \in Flags(nd)}, nd)
    [] m = "setPageMargins" -> P({<<72, 72, 72, 72>>, <<0, 36, 72, 36>>}, {<<>>}, nd)
    [] m = "setPageOrientation" -> P({<<0>>, <<1>>}, {<<>>}, nd)
    [] m = "setPaperSize" -> P({<<1>>, <<8>>}, {<<>>}, nd)
    [] m = "moveCursor" ->
         P({<<1, count, extend>> : count \in {-1, 1}, extend \in BOOLEAN}, {<<>>}, nd)
    [] m = "selectParagraph" ->
         P({<<i>> : i \in Indices}, {<<n>> : n \in Sizes(nd)}, nd)
    [] m = "collapseSelection" -> P({<<TRUE>>, <<FALSE>>}, {<<>>}, nd)
    [] OTHER -> P({<<>>}, {<<>>}, nd)

\* The body of service method m on arguments x.a, with nd documents open.
Script(m, x, nd) ==
  LET a == x.a
      e == x.env
      d == x.noDoc
  IN CASE m = "getActiveDocument" -> getActiveDocument(nd, d)
       [] m = "createDocument" -> createDocument
       [] m = "openDocument" -> openDocument(e[1])
       [] m = "saveActiveDocument" -> saveActiveDocument(nd, d)
       [] m = "saveActiveDocumentAs" -> saveActiveDocumentAs(nd, d, a[1])
       [] m = "closeDocument" -> closeDocument(a[1])
       [] m = "insertText" -> insertText(nd, d)
       [] m = "deleteText" -> deleteText(nd, d, a[1], a[2])
       [] m = "findAndReplace" -> findAndReplace(nd, d, a[1], a[2], a[3])
       [] m = "toggleBold" -> toggleBold(nd, d)
       [] m = "toggleItalic" -> toggleItalic(nd, d)
       [] m = "toggleUnderline" -> toggleUnderline(nd, d, a[1], e[1])
       [] m = "setParagraphAlignment" -> setParagraphAlignment(nd, d, a[1])
       [] m = "setParagraphLeftIndent" -> setParagraphLeftIndent(nd, d, a[1])
       [] m = "setParagraphRightIndent" -> setParagraphRightIndent(nd, d, a[1])
       [] m = "setParagraphFirstLineIndent" -> setParagraphFirstLineIndent(nd, d, a[1])
       [] m = "setParagraphSpaceBefore" -> setParagraphSpaceBefore(nd, d, a[1])
       [] m = "setParagraphSpaceAfter" -> setParagraphSpaceAfter(nd, d, a[1])
       [] m = "setParagraphLineSpacing" -> setParagraphLineSpacing(nd, d, a[1], a[2])
       [] m = "addTable" -> addTable(nd, d, a[1], a[2])
       [] m = "getTableCell" -> getTableCell(nd, d, a[1], a[2], a[3], e[1], e[2], e[3])
       [] m = "setTableCellText" ->
            setTableCellText(nd, d, a[1], a[2], a[3], e[1], e[2], e[3])
       [] m = "insertTableRow" -> insertTableRow(nd, d, a[1], a[2], e[1], e[2])
       [] m = "insertTableColumn" -> insertTableColumn(nd, d, a[1], a[2], e[1], e[2])
       [] m = "applyTableAutoFormat" -> applyTableAutoFormat(nd, d, a[1], a[2], e[1])
       [] m = "insertPicture" -> insertPicture(nd, d, e[1])
       [] m = "setInlinePictureSize" ->
            setInlinePictureSize(nd, d, a[1], a[2], a[3], a[4], e[1], e[2], e[3])
       [] m = "getHeaderFooter" -> getHeaderFooter(nd, d, a[1], a[2], a[3], e[1], e[2])
       [] m = "setHeaderFooterText" ->
            setHeaderFooterText(nd, d, a[1], a[2], a[3], e[1], e[2])
       [] m = "setPageMargins" -> setPageMargins(nd, d, a[1], a[2], a[3], a[4])
       [] m = "setPageOrientation" -> setPageOrientation(nd, d, a[1])
       [] m = "setPaperSize" -> setPaperSize(nd, d, a[1])
       [] m = "moveCursorToStart" -> moveCursorToStart(nd, d)
       [] m = "moveCursorToEnd" -> moveCursorToEnd(nd, d)
       [] m = "moveCursor" -> moveCursor(nd, d, a[1], a[2], a[3])
       [] m = "selectAll" -> selectAll(nd, d)
       [] m = "selectParagraph" -> selectParagraph(nd, d, a[1], e[1])
       [] m = "collapseSelection" -> collapseSelection(nd, d, a[1])
       [] m = "getSelectionText" -> getSelectionText(nd, d)
       [] m = "getSelectionInfo" -> getSelectionInfo(nd, d)

\* The positions at which a script's one failing automation call may be: calls
\* it reaches, other than those that throw anyway; 0 for none.
FailPoints(script) ==
  {0} \cup {i \in 1..Len(script) :
              /\ IsCall(script[i])
              /\ \A j \in 1..i : script[j].kind # "throw" /\ ~script[j].broken}

Acquires(script) == script # <<>> /\ script[1].kind = "acquire"

\* Documents open in the instance getWordApplication hands out: those of the
\* held instance when its probe passes, none in an instance just constructed.
DocsSeen(app, nd, acq) == IF app # 0 /\ acq[1] = "ok" THEN nd ELSE 0

\* Documents open in the held instance after a run r of `script`.
DocsAfter(app, nd, script, r) ==
  (IF Acquires(script) /\ r.wordApp # app THEN 0 ELSE nd) + DocsDelta(r.done)

\* A method of wordService called directly.
CallService(m) ==
  /\ pc = "idle"
  /\ m = "closeDocument" => nDocs > 0
  /\ \E acq \in AcquireCases :
       \E x \in Params(m, DocsSeen(wordApp, nDocs, acq)) :
         LET script == Script(m, x, DocsSeen(wordApp, nDocs, acq))
         IN \E failAt \in FailPoints(script) :
              \E r \in {Run(wordApp, created, script, acq, failAt)} :
                 /\ ~Acquires(script) => acq = AcquireOk
                 /\ r.created > created => created < MaxInst
                 /\ DocsAfter(wordApp, nDocs, script, r) \in 0..MaxDocs
                 /\ wordApp' = r.wordApp
                 /\ created' = r.created
                 /\ running' = running \cup ((1..r.created) \ (1..created))
                 /\ nDocs' = DocsAfter(wordApp, nDocs, script, r)
                 /\ trace' = r.trace
                 /\ pc' = "returned"
                 /\ inv' = [layer |-> "service", op |-> m, a |-> x.a, env |-> x.env,
                            nd |-> IF Acquires(script)
                                     THEN DocsSeen(wordApp, nDocs, acq) ELSE nDocs,
                            err |-> r.err, calls |-> r.calls, done |-> r.done,
                            svc |-> {},
                            result |-> [isError |-> FALSE, content |-> <<>>]]
                 /\ UNCHANGED <<hlast, srvVars, conc>>

(***************************************************************************)
(* The tool handlers (tools/*.ts)                                          *)
(***************************************************************************)
\* Per tool: the service method its handler awaits and the text its catch
\* clause puts before error.message.
H(method, prefix) == [method |-> method, prefix |-> prefix]
Handlers ==
  "word_createDocument" :> H("createDocument", "Failed to create document:") @@
  "word_openDocument" :> H("openDocument", "Failed to open document 'filePath':") @@
  "word_saveActiveDocument" :>
     H("saveActiveDocument", "Failed to save active document:") @@
  "word_saveActiveDocumentAs" :>
     H("saveActiveDocumentAs", "Failed to save document as 'filePath':") @@
  "word_closeActiveDocument" :>
     H("closeDocument", "Failed to close active document:") @@
  "word_insertText" :> H("insertText", "Failed to insert text:") @@
  "word_deleteText" :> H("deleteText", "Failed to delete text:") @@
  "word_findAndReplace" :> H("findAndReplace", "Failed to find and replace text:") @@
  "word_toggleBold" :> H("toggleBold", "Failed to toggle bold:") @@
  "word_toggleItalic" :> H("toggleItalic", "Failed to toggle italic:") @@
  "word_toggleUnderline" :> H("toggleUnderline", "Failed to toggle underline:") @@
  "word_setParagraphAlignment" :>
     H("setParagraphAlignment", "Failed to set paragraph alignment:") @@
  "word_setParagraphLeftIndent" :>
     H("setParagraphLeftIndent", "Failed to set left indent:") @@
  "word_setParagraphRightIndent" :>
     H("setParagraphRightIndent", "Failed to set right indent:") @@
  "word_setParagraphFirstLineIndent" :>
     H("setParagraphFirstLineIndent", "Failed to set first line indent:") @@
  "word_setParagraphSpaceBefore" :>
     H("setParagraphSpaceBefore", "Failed to set space before paragraph:") @@
  "word_setParagraphSpaceAfter" :>
     H("setParagraphSpaceAfter", "Failed to set space after paragraph:") @@
  "word_setParagraphLineSpacing" :>
     H("setParagraphLineSpacing", "Failed to set line spacing:") @@
  "word_addTable" :> H("addTable", "Failed to add table:") @@
  "word_setTableCellText" :> H("setTableCellText", "Failed to set cell text:") @@
  "word_insertTableRow" :> H("insertTableRow", "Failed to insert table row:") @@
  "word_insertTableColumn" :>
     H("insertTableColumn", "Failed to insert table column:") @@
  "word_applyTableAutoFormat" :>
     H("applyTableAutoFormat", "Failed to apply table format:") @@
  "word_insertPicture" :> H("insertPicture", "Failed to insert picture:") @@
  "word_setInlinePictureSize" :>
     H("setInlinePictureSize", "Failed to resize inline picture:") @@
  "word_setHeaderFooterText" :>
     H("setHeaderFooterText", "Failed to set header/footer text:") @@
  "word_setPageMargins" :> H("setPageMargins", "Failed to set page margins:") @@
  "word_setPageOrientation" :>
     H("setPageOrientation", "Failed to set page orientation:") @@
  "word_setPaperSize" :> H("setPaperSize", "Failed to set paper size:") @@
  "word_moveCursorToStart" :>
     H("moveCursorToStart", "Failed to move cursor to start:") @@
  "word_moveCursorToEnd" :> H("moveCursorToEnd", "Failed to move cursor to end:") @@
  "word_moveCursor" :> H("moveCursor", "Failed to move cursor:") @@
  "word_selectAll" :> H("selectAll", "Failed to select all:") @@
  "word_selectParagraph" :> H("selectParagraph", "Failed to select paragraph:") @@
  "word_collapseSelection" :>
     H("collapseSelection", "Failed to collapse selection:") @@
  "word_getSelectionText" :> H("getSelectionText", "Failed to get selection text:") @@
  "word_getSelectionInfo" :> H("getSelectionInfo", "Failed to get selection info:")

\* What the tool's zod schema lets through, and what the handler can pass on,
\* of the arguments `a` of the tool's service method.
Validated(t, a) ==
  CASE t = "word_setParagraphAlignment" -> a[1] \in 0..3
    [] t \in {"word_setParagraphSpaceBefore", "word_setParagraphSpaceAfter"} -> a[1] >= 0
    [] t = "word_setParagraphLineSpacing" -> a[1] \in 0..5
    [] t = "word_addTable" -> a[1] >= 1 /\ a[2] >= 1
    [] t = "word_setTableCellText" -> a[1] >= 1 /\ a[2] >= 1 /\ a[3] >= 1
    [] t \in {"word_insertTableRow", "word_insertTableColumn"} ->
         a[1] >= 1 /\ (Given(a[2]) => a[2][1] >= 1)
    \* the handler passes tableIndex and formatName only
    [] t = "word_applyTableAutoFormat" -> a[1] >= 1 /\ ~Given(a[2])
    [] t = "word_setInlinePictureSize" -> a[1] >= 1
    [] t = "word_setHeaderFooterText" -> a[1] >= 1 /\ a[2] \in 1..3
    [] t = "word_setPageMargins" -> \A i \in 1..4 : a[i] >= 0
    [] t = "word_setPageOrientation" -> a[1] \in 0..1
    [] t = "word_moveCursor" -> a[1] \in 1..12
    [] t = "word_selectParagraph" -> a[1] >= 1
    [] OTHER -> TRUE

ToolParams(t, nd) == {x \in Params(Handlers[t].method, nd) : Validated(t, x.a)}

\* A faulty variant: the save handler first fetches the active document itself.
HandlerScript_doubleCall(t, x, nd) ==
  CASE t = "word_closeActiveDocument" ->
         Svc("getActiveDocument", getActiveDocument(nd, x.noDoc)) \o
         Svc("closeDocument", closeDocument(x.a[1]))
    [] t = "word_saveActiveDocument" ->
         Svc("getActiveDocument", getActiveDocument(nd, x.noDoc)) \o
         Svc("saveActiveDocument", Tail(saveActiveDocument(nd, x.noDoc)))
    [] t = "word_setInlinePictureSize" /\ x.a[2] <= 0 /\ x.a[3] <= 0 -> <<>>
    [] t = "word_setParagraphLineSpacing" /\ x.a[1] >= 3 /\ ~Given(x.a[2]) ->
         <<Throw("lineSpacingValue is required.")>>
    [] OTHER -> Svc(Handlers[t].method, Script(Handlers[t].method, x, nd))

\* A faulty variant: the line-spacing handler does not ask for the value.
HandlerScript_noSpacingCheck(t, x, nd) ==
  CASE t = "word_closeActiveDocument" ->
         Svc("getActiveDocument", getActiveDocument(nd, x.noDoc)) \o
         Svc("closeDocument", closeDocument(x.a[1]))
    [] t = "word_setInlinePictureSize" /\ x.a[2] <= 0 /\ x.a[3] <= 0 -> <<>>
    [] OTHER -> Svc(Handlers[t].method, Script(Handlers[t].method, x, nd))

\* A faulty variant: the picture-size handler calls the service whatever the
\* sizes.
HandlerScript_noSizeCheck(t, x, nd) ==
  CASE t = "word_closeActiveDocument" ->
         Svc("getActiveDocument", getActiveDocument(nd, x.noDoc)) \o
         Svc("closeDocument", closeDocument(x.a[1]))
    [] t = "word_setParagraphLineSpacing" /\ x.a[1] >= 3 /\ ~Given(x.a[2]) ->
         <<Throw("lineSpacingValue is required.")>> \o
         Svc("setParagraphLineSpacing", Script("setParagraphLineSpacing", x, nd))
    [] OTHER -> Svc(Handlers[t].method, Script(Handlers[t].method, x, nd))

\* The try block of tool t's handler: the service calls it awaits, and what it
\* throws itself.
HandlerScript(t, x, nd) ==
  CASE t = "word_closeActiveDocument" ->
         Svc("getActiveDocument", getActiveDocument(nd, x.noDoc)) \o
         Svc("closeDocument", closeDocument(x.a[1]))
    [] t = "word_setInlinePictureSize" /\ x.a[2] <= 0 /\ x.a[3] <= 0 -> <<>>
    [] t = "word_setParagraphLineSpacing" /\ x.a[1] >= 3 /\ ~Given(x.a[2]) ->
         <<Throw("lineSpacingValue is required.")>> \o
         Svc("setParagraphLineSpacing", Script("setParagraphLineSpacing", x, nd))
    [] OTHER -> Svc(Handlers[t].method, Script(Handlers[t].method, x, nd))

\* `Failed to ...: ${error.message}`
Describe(prefix, message) == <<prefix>> \o message

\* A faulty variant: find-and-replace flags every search without a match.
ToolResult_flagNotFound(t, x, err) ==
  IF err # NoError
    THEN [isError |-> TRUE, content |-> <<Describe(Handlers[t].prefix, err)>>]
  ELSE IF t = "word_findAndReplace"
    THEN [isError |-> ~x.env[1],
          content |-> <<IF x.env[1] THEN <<"Successfully found and replaced text.">>
                        ELSE <<"Text not found.">> >>]
  ELSE [isError |-> FALSE, content |-> << <<"Successfully done.">> >>]

\* A faulty variant: a failure is described and not flagged.
ToolResult_noFlag(t, x, err) ==
  IF err # NoError
    THEN [isError |-> FALSE, content |-> <<Describe(Handlers[t].prefix, err)>>]
    ELSE [isError |-> FALSE, content |-> << <<"Successfully done.">> >>]

\* What the handler returns: err is the message of the error its catch clause
\* received (NoError: the try block ran through).  content is the sequence of
\* the text segments; an absent isError is FALSE.
ToolResult(t, x, err) ==
  IF err # NoError
    THEN IF t = "word_closeActiveDocument"
              /\ Includes(err, "No active document found in Word.")
           THEN [isError |-> FALSE, content |-> << <<"No active document to close.">> >>]
           ELSE [isError |-> TRUE, content |-> <<Describe(Handlers[t].prefix, err)>>]
  ELSE CASE t = "word_findAndReplace" ->
              [isError |-> ~x.env[1] /\ x.a[3],
               content |-> <<IF x.env[1] THEN <<"Successfully found and replaced text.">>
                             ELSE <<"Text not found.">> >>]
         [] t = "word_setInlinePictureSize" /\ x.a[2] <= 0 /\ x.a[3] <= 0 ->
              [isError |-> FALSE, content |-> << <<"No size change specified.">> >>]
         [] t = "word_getSelectionText" ->
              [isError |-> FALSE,
               content |-> << <<"Current selection text:">>, <<"text">> >>]
         [] t = "word_getSelectionInfo" ->
              [isError |-> FALSE,
               content |-> << <<"Selection Information:">>, <<"- Text">>,
                              <<"- Start Position">>, <<"- End Position">>,
                              <<"- Is Active">>, <<"- Selection Type">> >>]
         [] OTHER -> [isError |-> FALSE, content |-> << <<"Successfully done.">> >>]

\* A tools/call request for a registered tool, with validated arguments.
CallTool(t) ==
  /\ pc = "idle"
  /\ phase \in {"stdio", "sse"}
  /\ t \in registry
  /\ \E acq \in AcquireCases :
       \E x \in ToolParams(t, DocsSeen(wordApp, nDocs, acq)) :
         LET script == HandlerScript(t, x, DocsSeen(wordApp, nDocs, acq))
         IN \E failAt \in FailPoints(script) :
              \E r \in {Run(wordApp, created, script, acq, failAt)} :
                 /\ ~Acquires(script) => acq = AcquireOk
                 /\ r.created > created => created < MaxInst
                 /\ DocsAfter(wordApp, nDocs, script, r) \in 0..MaxDocs
                 /\ wordApp' = r.wordApp
                 /\ created' = r.created
                 /\ running' = running \cup ((1..r.created) \ (1..created))
                 /\ nDocs' = DocsAfter(wordApp, nDocs, script, r)
                 /\ trace' = r.trace
                 /\ pc' = "returned"
                 /\ inv' = [layer |-> "tool", op |-> t, a |-> x.a, env |-> x.env,
                            nd |-> IF Acquires(script)
                                     THEN DocsSeen(wordApp, nDocs, acq) ELSE nDocs,
                            err |-> r.err, calls |-> r.calls, done |-> r.done,
                            svc |-> r.entered,
                            result |-> ToolResult(t, x, r.err)]
                 /\ UNCHANGED <<hlast, srvVars, conc>>

\* wordService.quitWord(), called directly: the documents go with the instance.
CallQuitWord ==
  \E quit \in CallOutcomes :
    LET r == quitWord(wordApp, quit)
    IN /\ pc = "idle"
       /\ wordApp' = r.wordApp
       /\ running' = running \ r.quitted
       /\ nDocs' = 0
       /\ trace' = r.trace
       /\ pc' = "returned"
       /\ inv' = [NoInv EXCEPT !.layer = "service", !.op = "quitWord", !.nd = nDocs,
                               !.calls = r.trace]
       /\ UNCHANGED <<created, hlast, srvVars, conc>>

\* The caller takes the outcome.
Return ==
  /\ pc = "returned"
  /\ pc' = "idle"
  /\ inv' = NoInv
  /\ trace' = <<>>
  /\ UNCHANGED <<wordApp, created, running, nDocs, hlast, srvVars, conc>>

NextOps ==
  \/ \E m \in ServiceMethods : CallService(m)
  \/ \E t \in DOMAIN Handlers : CallTool(t)
  \/ CallQuitWord
  \/ Return

SpecOps == Init /\ [][NextOps]_vars

(***************************************************************************)
(* Claims about the handle manager                                         *)
(***************************************************************************)
CallsIn(t, member) == {i \in 1..Len(t) : t[i][2] = member}
ProbeFailed == hlast.op = "getWordApplication" /\ hlast.probe \in {"Visible", "Documents", "Count"}

\* C1: the manager holds one handle at a time: a handle an acquire returns is
\* the held one and names an instance that was constructed; and an acquire whose
\* probe of the held handle fails drops that handle without any Quit on it (it
\* stays running) and, when it returns, returns an instance constructed by this
\* very call, never the stale one.
C1_SingleHandleFreshAfterProbeFailure ==
  /\ wordApp \in 0..created
  /\ (hlast.op = "getWordApplication" /\ ~hlast.threw) =>
        (hlast.ret = wordApp /\ wordApp \in 1..created)
  /\ ProbeFailed =>
        /\ wordApp # hlast.before
        /\ CallsIn(trace, "Quit") = {}
        /\ hlast.before \in running
        /\ ~hlast.threw =>
              (hlast.ret > hlast.createdBefore /\ hlast.ret # hlast.before)

C1_Witness ==
  /\ ProbeFailed
  /\ hlast.probe = "Count"
  /\ ~hlast.threw
  /\ hlast.before # 0

\* C2: whenever creating a new application handle throws (the constructor or
\* the write of Visible), the held handle is null afterwards.
C2_FailedCreationLeavesHandleUnset ==
  (hlast.op = "getWordApplication" /\ hlast.threw) => wordApp = 0

\* C3: quitWord never throws and leaves the held handle null whether Quit
\* succeeded or threw; when a handle was held Quit is called exactly once, on
\* it, with 0 (do not save), and otherwise not at all; and the acquire that
\* follows makes no probe and constructs a new instance.
C3_QuitState ==
  hlast.op = "quitWord" =>
    /\ ~hlast.threw
    /\ wordApp = 0
    /\ trace = IF hlast.before # 0 THEN <<Call("call", "Quit", hlast.before, <<0>>)>> ELSE <<>>

C3_NextAcquireCreates ==
  (hlast.op = "quitWord" /\ hlast'.op = "getWordApplication") =>
    /\ hlast'.probe = "none"
    /\ trace'[1][1] = "new"
    /\ ~hlast'.threw => (hlast'.ret = created + 1 /\ hlast'.ret \notin running)

C3_QuitClearsHandle == []C3_QuitState /\ [][C3_NextAcquireCreates]_vars

C3_Witness ==
  /\ hlast.op = "quitWord"
  /\ hlast.before # 0
  /\ hlast.probe = "throws"

(***************************************************************************)
(* Claims about the service methods and the tool handlers                  *)
(***************************************************************************)
\* The service method the last call ran (a tool's: the one its handler awaits).
OpMethod ==
  IF inv.layer = "tool" THEN Handlers[inv.op].method ELSE inv.op
NoWrite == \A i \in 1..Len(inv.calls) : ~Mutating(inv.calls[i])

\* Once the size `count` of the collection has been read (`counted`), an index
\* outside 1..bound fails with the fragment and without any write, and one
\* inside is not rejected with it.
IndexRule(index, bound, counted, fragment) ==
  Includes(inv.done, counted) =>
    IF index \in 1..bound
      THEN ~Includes(inv.err, fragment)
      ELSE Includes(inv.err, fragment) /\ NoWrite

\* C4: for every 1-based index argument into a collection of size N, an index
\* outside 1..N (1..N+1 for beforeRowIndex and beforeColIndex) makes the
\* operation fail with an out-of-bounds error before any property write or
\* acting method call, and an index inside the range is never rejected as out
\* of bounds.
C4_IndexBoundsBeforeWrite ==
  pc = "returned" =>
    /\ OpMethod \in {"getTableCell", "setTableCellText", "insertTableRow",
                     "insertTableColumn", "applyTableAutoFormat"} =>
         IndexRule(inv.a[1], inv.env[1], "Tables.Count", "Table index is out of bounds.")
    /\ (OpMethod = "insertTableRow" /\ Given(inv.a[2])) =>
         IndexRule(inv.a[2][1], inv.env[2] + 1, "Rows.Count",
                   "Row index is out of bounds for insertion.")
    /\ (OpMethod = "insertTableColumn" /\ Given(inv.a[2])) =>
         IndexRule(inv.a[2][1], inv.env[2] + 1, "Columns.Count",
                   "Column index is out of bounds for insertion.")
    /\ OpMethod = "setInlinePictureSize" =>
         IndexRule(inv.a[1], inv.env[1], "InlineShapes.Count",
                   "InlineShape index is out of bounds.")
    /\ OpMethod \in {"getHeaderFooter", "setHeaderFooterText"} =>
         IndexRule(inv.a[1], inv.env[1], "Sections.Count",
                   "Section index is out of bounds.")
    /\ OpMethod = "selectParagraph" =>
         IndexRule(inv.a[1], inv.env[1], "Paragraphs.Count",
                   "Paragraph index is out of bounds.")

\* insertTableRow before row N+2 of a table with N rows is rejected.
C4_Witness ==
  /\ pc = "returned"
  /\ inv.op = "insertTableRow"
  /\ Given(inv.a[2])
  /\ inv.a[2][1] = inv.env[2] + 2
  /\ Includes(inv.done, "Rows.Count")
  /\ Includes(inv.err, "Row index is out of bounds for insertion.")

\* Operations that work on the active document.
NeedsDocument ==
  /\ inv.layer \in {"service", "tool"}
  /\ OpMethod \notin {"createDocument", "openDocument", "quitWord"}
  /\ inv.layer = "service" => inv.op # "closeDocument"
\* The last call failed: a service method threw; a tool's try block threw and,
\* unless it is the close tool, its result is error-flagged.
Failed ==
  /\ inv.err # NoError
  /\ (inv.layer = "tool" /\ inv.op # "word_closeActiveDocument") => inv.result.isError

\* C5 as claimed: every operation that needs a document, run with no document
\* open, fails and leaves the number of open documents at zero.
C5_NoDocumentFails ==
  (pc = "returned" /\ NeedsDocument /\ inv.nd = 0) => (Failed /\ nDocs = 0)

\* Calls that do nothing by design: deleteText with count 0, and the
\* set-inline-picture-size tool when neither dimension is positive.
NoOpCall ==
  \/ OpMethod = "deleteText" /\ inv.a[1] = 0
  \/ inv.op = "word_setInlinePictureSize" /\ inv.a[2] <= 0 /\ inv.a[3] <= 0

\* C5 as amended: every operation that needs a document, run with no document
\* open, leaves the number of open documents at zero, and fails unless it is
\* deleteText with count 0 or the set-inline-picture-size tool with neither
\* dimension positive; these touch no document, and fail only when the
\* application cannot be started.
C5_NoDocumentFailsUnlessNoOp ==
  (pc = "returned" /\ NeedsDocument /\ inv.nd = 0) =>
     /\ nDocs = 0
     /\ ~NoOpCall => Failed
     /\ NoOpCall =>
          /\ inv.calls = <<>>
          /\ inv.err # NoError =>
                Includes(inv.err, "Failed to initialize Word.Application.")

\* The insert-text tool, run on a live instance without a document, reports an
\* error and no document exists.
C5_Witness ==
  /\ pc = "returned"
  /\ inv.op = "word_insertText"
  /\ inv.nd = 0
  /\ wordApp # 0
  /\ Includes(inv.err, "Failed to insert text.")
  /\ inv.result.isError
  /\ nDocs = 0

\* The service method the handler awaited threw / returned normally.
ServiceThrew == inv.svc # {} /\ inv.err # NoError
ServiceReturned == inv.svc # {} /\ inv.err = NoError
CloseWithoutDocument ==
  /\ inv.op = "word_closeActiveDocument"
  /\ Includes(inv.err, "No active document found in Word.")
SoftFailure ==
  /\ inv.op = "word_findAndReplace"
  /\ ~inv.env[1]
  /\ inv.a[3]

\* C6: every tool handler returns a result whatever the service call does; when
\* the service method throws, the result is error-flagged and has exactly one
\* text segment, the operation's description followed by the error's message;
\* when the service method returns normally the result is not error-flagged.
\* The exceptions are the find-and-replace soft failure and the close tool
\* finding no active document.
C6_HandlerResult ==
  (pc = "returned" /\ inv.layer = "tool") =>
     /\ Len(inv.result.content) >= 1
     /\ (ServiceThrew /\ ~CloseWithoutDocument) =>
          /\ inv.result.isError
          /\ inv.result.content = <<Describe(Handlers[inv.op].prefix, inv.err)>>
     /\ (ServiceReturned /\ ~SoftFailure) => ~inv.result.isError

\* The set-cell-text tool on a table index beyond the last table.
C6_Witness ==
  /\ pc = "returned"
  /\ inv.op = "word_setTableCellText"
  /\ Includes(inv.err, "Table index is out of bounds.")
  /\ inv.result.isError
  /\ Len(inv.result.content) = 1

\* C7 as claimed: every invocation of a registered tool handler calls exactly
\* one service method.
C7_ExactlyOneServiceCall ==
  (pc = "returned" /\ inv.layer = "tool") => Cardinality(inv.svc) = 1

SizePreCheck ==
  inv.op = "word_setInlinePictureSize" /\ inv.a[2] <= 0 /\ inv.a[3] <= 0
SpacingPreCheck ==
  inv.op = "word_setParagraphLineSpacing" /\ inv.a[1] >= 3 /\ ~Given(inv.a[2])

\* C7 as amended: every invocation of a registered tool handler calls exactly
\* one service method, its own, except that the close tool calls
\* getActiveDocument and, when that returns, closeDocument as well, and that
\* the set-inline-picture-size tool with neither dimension positive and the
\* set-line-spacing tool with a rule of 3 or more and no value call none.
C7_OneServiceCallButThree ==
  (pc = "returned" /\ inv.layer = "tool") =>
     IF inv.op = "word_closeActiveDocument"
       THEN inv.svc = IF Includes(inv.done, "ActiveDocument")
                           /\ ~Includes(inv.err, "No active document found in Word.")
                        THEN {"getActiveDocument", "closeDocument"}
                        ELSE {"getActiveDocument"}
     ELSE IF SizePreCheck \/ SpacingPreCheck THEN inv.svc = {}
     ELSE inv.svc = {Handlers[inv.op].method}

\* The close tool closing the one open document.
C7_Witness ==
  /\ pc = "returned"
  /\ inv.op = "word_closeActiveDocument"
  /\ inv.svc = {"getActiveDocument", "closeDocument"}
  /\ inv.nd = 1
  /\ nDocs = 0
  /\ ~inv.result.isError

(***************************************************************************)
(* Claims about registration and the SSE transport table                   *)
(***************************************************************************)
AllAreaTools ==
  DocumentTools \cup TextTools \cup ParagraphTools \cup TableTools \cup ImageTools
    \cup HeaderFooterTools \cup PageSetupTools \cup CursorSelectionTools

\* C8: once the process has started, the registry holds the tools of all eight
\* functional areas, the cursor/selection tools among them.
C8_AllEightAreasRegistered ==
  phase \in {"stdio", "sse"} => AllAreaTools \subseteq registry

OpenConns == {c \in 1..nextConn : connState[c] # "closed"}

\* C9: in SSE mode the transport table holds exactly the connections accepted
\* and not yet closed, each under its own session id.
C9_TableIsOpenConnections ==
  phase = "sse" =>
    /\ DOMAIN transports = OpenConns
    /\ \A k \in DOMAIN transports : transports[k] = k

C9_Witness ==
  /\ phase = "sse"
  /\ \E a, b, c \in 1..nextConn :
       /\ connState[a] = "closed"
       /\ connState[b] = "failed"
       /\ connState[c] = "connected"
  /\ Cardinality(DOMAIN transports) = 2

Rejected(p) == p.status = 400 /\ p.to = 0

\* C10: every POST whose session id is missing or not in the transport table
\* is answered 400 and handed to no transport; so is every POST that carries
\* the session id of a connection that has closed.
C10_PostStep ==
  lastPost'.tick # lastPost.tick =>
    /\ (lastPost'.sid = MissingSid \/ lastPost'.sid \notin DOMAIN transports)
         => Rejected(lastPost')
    /\ (lastPost'.sid \in 1..nextConn /\ connState[lastPost'.sid] = "closed")
         => Rejected(lastPost')

C10_UnknownSessionRejected == [][C10_PostStep]_vars

C10_Witness ==
  /\ lastPost.issued
  /\ Rejected(lastPost)
  /\ lastPost.body = "No transport found for sessionId"


(***************************************************************************)
(* Two tool invocations in flight.  An async function runs without         *)
(* interruption up to its next await and resumes in a later turn of the    *)
(* event loop, so the steps of two handlers interleave at their awaits.    *)
(* The application is running and healthy; its documents are `docs`, the   *)
(* active one last, and `text` maps a document to the cell of its table    *)
(* (<<>>: the document has no table).                                      *)
(***************************************************************************)
\* Bound on the number of documents open when the two invocations arrive.
MaxOpen == 2

ConcTools == {"word_closeActiveDocument", "word_createDocument", "word_setTableCellText"}

ActiveDoc(docs) == IF docs = <<>> THEN 0 ELSE docs[Len(docs)]
IsOpen(docs, d) == \E i \in 1..Len(docs) : docs[i] = d
Without(docs, d) == SelectSeq(docs, LAMBDA e : e # d)

\* An invocation that has not started: `at` counts the awaits passed, `doc`
\* is the document reference it holds, `err` the error thrown to the handler.
Fresh(tool) == [tool |-> tool, at |-> 0, doc |-> 0, err |-> NoError, done |-> FALSE, result |-> [isError |-> FALSE, content |-> <<>>]]

\* The handler's return: the result of its try block or of its catch clause.
Settle(v, err) == [v EXCEPT !.err = err, !.done = TRUE, !.result = ToolResult(v.tool, [a |-> <<>>, env |-> <<>>], err)]

\* getActiveDocument after its await of getWordApplication (lines 75-84).
Capture(c, k, outer) ==
  LET v == c.inv[k]
  IN IF c.docs # <<>>
       THEN [c EXCEPT !.inv[k] = [v EXCEPT !.at = 2, !.doc = ActiveDoc(c.docs)]]
     ELSE [c EXCEPT !.inv[k] =
             Settle(v, WrapAll(outer, Wrap("Failed to get active document.",
                                IF c.noDoc = "null"
                                  THEN <<"No active document found in Word.">>
                                  ELSE ComError)))]

\* closeDocumentTool (part_001 lines 97-118): getWordApplication | the read
\* of ActiveDocument | closeDocument(doc) | return.
closeDocumentTool(c, k) ==
  LET v == c.inv[k]
  IN CASE v.at = 0 -> [c EXCEPT !.inv[k].at = 1]
       [] v.at = 1 -> Capture(c, k, <<>>)
       \* doc.Close throws on a document that is closed already; closeDocument
       \* swallows the error (lines 160-164)
       [] v.at = 2 -> [c EXCEPT !.docs = Without(c.docs, v.doc), !.inv[k].at = 3]
       [] OTHER -> [c EXCEPT !.inv[k] = Settle(v, NoError)]

\* createDocumentTool (part_001 lines 10-23): getWordApplication |
\* Documents.Add | return.  The new document is active and has no table.
createDocumentTool(c, k) ==
  LET v == c.inv[k]
  IN CASE v.at = 0 -> [c EXCEPT !.inv[k].at = 1]
       [] v.at = 1 -> [c EXCEPT !.docs = Append(c.docs, c.next),
                                !.next = c.next + 1,
                                !.text = Append(c.text, <<>>),
                                !.inv[k].at = 2]
       [] OTHER -> [c EXCEPT !.inv[k] = Settle(v, NoError)]

\* setTableCellTextTool for cell (1, 1) of table 1, writing the invocation's
\* own number: getWordApplication | the read of ActiveDocument | getTableCell
\* on that document | cell.Range.Text = text | return.
setTableCellTextTool(c, k) ==
  LET v == c.inv[k]
  IN CASE v.at = 0 -> [c EXCEPT !.inv[k].at = 1]
       [] v.at = 1 -> Capture(c, k, <<"Failed to set cell text.">>)
       [] v.at = 2 ->
            IF ~IsOpen(c.docs, v.doc)
              THEN [c EXCEPT !.inv[k] = Settle(v, WrapAll(<<"Failed to set cell text.", "Failed to get cell.">>, ComError))]
            ELSE IF c.text[v.doc] = <<>>
              THEN [c EXCEPT !.inv[k] = Settle(v, WrapAll(<<"Failed to set cell text.", "Failed to get cell.">>, <<"Table index is out of bounds.">>))]
            ELSE [c EXCEPT !.inv[k].at = 3]
       [] v.at = 3 ->
            IF ~IsOpen(c.docs, v.doc)
              THEN [c EXCEPT !.inv[k] = Settle(v, Wrap("Failed to set cell text.", ComError))]
            ELSE [c EXCEPT !.text[v.doc] = <<k>>, !.inv[k].at = 4]
       [] OTHER -> [c EXCEPT !.inv[k] = Settle(v, NoError)]

\* Invocation k runs from where it stands to its next await or to its return.
Advance(c, k) ==
  CASE c.inv[k].tool = "word_closeActiveDocument" -> closeDocumentTool(c, k)
    [] c.inv[k].tool = "word_createDocument" -> createDocumentTool(c, k)
    [] OTHER -> setTableCellTextTool(c, k)

\* The two invocations t1 and t2 arrive with n documents open, each document
\* with a one-cell table holding 0.
Arrival(t1, t2, n, noDoc) == [docs |-> [i \in 1..n |-> i], next |-> n + 1, text |-> [i \in 1..n |-> <<0>>], noDoc |-> noDoc, inv |-> <<Fresh(t1), Fresh(t2)>>, from |-> n]

InitConc ==
  /\ wordApp = 1
  /\ created = 1
  /\ running = {1}
  /\ trace = <<>>
  /\ hlast = [op |-> "none", before |-> 0, createdBefore |-> 0, probe |-> "ok",
              ret |-> 0, threw |-> FALSE, err |-> NoError]
  /\ ServingInit
  /\ pc = "idle"
  /\ inv = NoInv
  /\ \E t1 \in ConcTools, t2 \in ConcTools, n \in 0..MaxOpen, noDoc \in NoDocModes :
       /\ conc = Arrival(t1, t2, n, noDoc)
       /\ nDocs = n

\* One turn of the event loop given to invocation k.
Turn(k) ==
  /\ ~conc.inv[k].done
  /\ conc' = Advance(conc, k)
  /\ nDocs' = Len(conc'.docs)
  /\ UNCHANGED <<wordApp, created, running, trace, hlast, srvVars, pc, inv>>

NextConc == \E k \in 1..2 : Turn(k)

SpecConc == InitConc /\ [][NextConc]_vars

\* Invocation k alone, from where it stands to its return.
RECURSIVE Finish(_, _)
Finish(c, k) == IF c.inv[k].done THEN c ELSE Finish(Advance(c, k), k)

\* The serial order that runs invocation `first` to its return before the
\* other one starts.
Serial(c, first) == Finish(Finish(c, first), 3 - first)

\* The final state of the application and the two tool results.
Outcome(c) == [docs |-> c.docs, text |-> [i \in 1..Len(c.docs) |-> c.text[c.docs[i]]], results |-> <<c.inv[1].result, c.inv[2].result>>]

BothDone == conc.inv # <<>> /\ conc.inv[1].done /\ conc.inv[2].done
Arrived == Arrival(conc.inv[1].tool, conc.inv[2].tool, conc.from, conc.noDoc)

\* C11: every interleaved execution of two concurrent tool invocations ends
\* in the final state, and with the tool results, of one of the two serial
\* orders of those invocations.
C11_Serializable ==
  BothDone => Outcome(conc) \in {Outcome(Serial(Arrived, 1)), Outcome(Serial(Arrived, 2))}


(***************************************************************************)
(* The process from its start, serving tool calls.                         *)
(***************************************************************************)
NextProcess ==
  \/ Main
  \/ \E t \in DOMAIN Handlers : CallTool(t)
  \/ Return

SpecProcess == InitServer /\ [][NextProcess]_vars

Supported == transportMode \in {"stdio", "sse"}
Started == phase # "boot"
Exited == phase = "exited"
\* A tool call has returned an error-flagged result.
ToolFailed == pc = "returned" /\ inv.layer = "tool" /\ inv.result.isError
\* A failure reported by a tool leaves the process running.
ToolFailureSurvived == ToolFailed => phase \in {"stdio", "sse"} /\ exitCode = -1

\* C12 as stated: the process exits with a non-zero code when the transport
\* mode is neither stdio nor sse, it exits under no other condition, and a
\* failure while serving is reported in a tool result with the process left
\* running.
C12_ExitsOnlyOnUnsupportedMode ==
  /\ (Started /\ ~Supported) => (Exited /\ exitCode > 0)
  /\ Exited => ~Supported
  /\ ToolFailureSurvived

\* C12, amended: the process exits, with code 1, exactly when startup fails:
\* the mode is unsupported, the stdio transport cannot be connected or the
\* HTTP server of the sse mode cannot listen.  A failure while serving is
\* reported in a tool result with the process left running.
C12_ExitsOnlyWhenStartupFails ==
  /\ (Started /\ ~Supported) => (Exited /\ exitCode > 0)
  /\ Exited <=> (Started /\ (~Supported \/ startFailure # "none"))
  /\ Exited => exitCode = 1
  /\ ~Exited => exitCode = -1
  /\ startFailure = "connect" => transportMode = "stdio"
  /\ startFailure = "listen" => transportMode = "sse"
  /\ ToolFailureSurvived

\* C12: the process has exited on an unsupported transport mode.
C12_Witness == Exited /\ exitCode = 1 /\ transportMode = "other" /\ registry # {}


(***************************************************************************)
(* Results of the find-and-replace and close tools                         *)
(***************************************************************************)
ToolReturned(t) == pc = "returned" /\ inv.layer = "tool" /\ inv.op = t

\* C13: the find-and-replace tool's result is error-flagged exactly when the
\* service call threw or when no match was found and replaceAll was true; a
\* search without a match and without replaceAll reports "Text not found."
\* unflagged, and a search with a match is never flagged.
C13_FindReplaceFlag ==
  ToolReturned("word_findAndReplace") =>
    LET threw == inv.err # NoError
        found == inv.env[1]
        replaceAll == inv.a[3]
    IN /\ inv.result.isError <=> (threw \/ (~found /\ replaceAll))
       /\ (~threw /\ ~found /\ ~replaceAll) =>
            inv.result = [isError |-> FALSE, content |-> << <<"Text not found.">> >>]
       /\ (~threw /\ found) => ~inv.result.isError

\* C13: a replace-all search returned without a match.
C13_Witness ==
  /\ ToolReturned("word_findAndReplace")
  /\ inv.err = NoError
  /\ Includes(inv.done, "Find.Execute")
  /\ ~inv.env[1]
  /\ inv.a[3]
  /\ inv.result.isError

\* The application was acquired and showed no open document.
NoDocumentOpen ==
  /\ inv.nd = 0
  /\ ~Includes(inv.err, "Failed to initialize Word.Application.")
Closes == \E i \in 1..Len(inv.calls) : inv.calls[i][2] = "Close"

\* C14: the close tool, invoked while no document is open, returns the
\* non-error result "No active document to close." and calls Close on no
\* document; no other tool turns the no-active-document failure into a
\* non-error result.
C14_CloseWithoutDocumentIsNoError ==
  /\ (ToolReturned("word_closeActiveDocument") /\ NoDocumentOpen) =>
       /\ inv.result = [isError |-> FALSE, content |-> << <<"No active document to close.">> >>]
       /\ ~Closes
  /\ (pc = "returned" /\ inv.layer = "tool" /\ inv.op # "word_closeActiveDocument"
        /\ Includes(inv.err, "No active document found in Word.")) =>
       inv.result.isError


(***************************************************************************)
(* What the calls of a method do to the part of the document they work on. *)
(***************************************************************************)
\* The calls of a method run on its own from a healthy handle, with no
\* automation failure.
CallsOf(m, x, nd) == Run(1, 1, Script(m, x, nd), AcquireOk, 0).calls

\* The rows (or columns) of a table are the sequence of their names, 1..n at
\* first; 0 names an item added.
Items(n) == [i \in 1..n |-> i]
InsertAt(items, b, new) == SubSeq(items, 1, b - 1) \o <<new>> \o SubSeq(items, b, Len(items))
\* Rows.Add / Columns.Add: before the item given, at the end without one.  An
\* undefined argument reaches Word as an omitted one.
RECURSIVE TableAfter(_, _, _)
TableAfter(coll, items, calls) ==
  IF calls = <<>> THEN items
  ELSE LET c == Head(calls)
       IN TableAfter(coll,
                     IF c[2] # coll \o ".Add" THEN items
                     ELSE IF c[4] \in {<<>>, <<0>>} THEN Append(items, 0)
                     ELSE InsertAt(items, c[4][1], 0),
                     Tail(calls))

ServiceDone(m) == pc = "returned" /\ inv.layer \in {"service", "tool"} /\ OpMethod = m
\* The last call was an insertion into collection `coll` of table 1 at the
\* index one past its last item.
InsertsPastEnd(m) == ServiceDone(m) /\ inv.nd > 0 /\ Given(inv.a[2]) /\ inv.a[2][1] = inv.env[2] + 1
\* The same call with the index omitted.
IndexOmitted == [a |-> <<inv.a[1], <<>>>>, noDoc |-> "null", env |-> inv.env]
AppendsLikeOmitted(m, coll, fragment) ==
  InsertsPastEnd(m) =>
    /\ ~Includes(inv.err, fragment)
    /\ inv.err = NoError =>
         /\ TableAfter(coll, Items(inv.env[2]), inv.calls) = Append(Items(inv.env[2]), 0)
         /\ TableAfter(coll, Items(inv.env[2]), inv.calls)
              = TableAfter(coll, Items(inv.env[2]), CallsOf(m, IndexOmitted, inv.nd))

\* C15: on a table with N rows, insertTableRow with beforeRowIndex = N + 1 is
\* accepted, appends one row at the end and leaves the table that the call
\* with the index omitted leaves; likewise insertTableColumn with the column
\* count plus one.
C15_InsertPastEndAppends ==
  /\ AppendsLikeOmitted("insertTableRow", "Rows", "Row index is out of bounds for insertion.")
  /\ AppendsLikeOmitted("insertTableColumn", "Columns", "Column index is out of bounds for insertion.")

\* C15: a row has been inserted at index N + 1 of a table with N = 2 rows.
C15_Witness ==
  /\ InsertsPastEnd("insertTableRow")
  /\ inv.env[2] = 2
  /\ inv.err = NoError
  /\ Len(TableAfter("Rows", Items(2), inv.calls)) = 3


(***************************************************************************)
(* deleteText.  The text is the sequence of its units, 1..n at first; the  *)
(* selection runs from `from` to `to` units into the text and is collapsed *)
(* when they are equal.  inv.env is <<n, position of the collapsed         *)
(* selection, DeleteModes>>.                                               *)
(***************************************************************************)
Min(a, b) == IF a < b THEN a ELSE b
Max(a, b) == IF a > b THEN a ELSE b
\* The text without the units at positions lo..hi.
Cut(text, lo, hi) == SubSeq(text, 1, lo - 1) \o SubSeq(text, Min(hi, Len(text)) + 1, Len(text))

\* Selection.MoveStart(unit, count) with count < 0 moves the start back by
\* count units, as far as the text goes; Selection.Delete(unit, count) deletes
\* forward and leaves the selection collapsed.
RECURSIVE TextAfter(_, _, _)
TextAfter(t, mode, calls) ==
  IF calls = <<>> THEN t
  ELSE LET c == Head(calls)
           next == CASE c[2] = "MoveStart" -> [t EXCEPT !.from = Max(0, t.from + c[4][2])]
                     [] c[2] = "Delete" ->
                          [text |-> Cut(t.text, t.from + 1,
                                        IF t.from = t.to \/ mode = "fromStart"
                                          THEN t.from + c[4][2]
                                          ELSE t.to + c[4][2] - 1),
                           from |-> t.from, to |-> t.from]
                     [] OTHER -> t
       IN TextAfter(next, mode, Tail(calls))

TextBefore == [text |-> Items(inv.env[1]), from |-> inv.env[2], to |-> inv.env[2]]
\* Calls that change the text of the document or the selection.
TouchesText == \E i \in 1..Len(inv.calls) : Mutating(inv.calls[i])
DeleteSucceeded == ToolResult("word_deleteText", [a |-> inv.a, env |-> inv.env], NoError)

\* C16 as stated: deleteText with count 0, whatever the unit, makes no call
\* that changes the text or the selection, and the delete-text tool returns a
\* non-error success result.
C16_ZeroCountSucceeds ==
  (ServiceDone("deleteText") /\ inv.a[1] = 0) =>
    /\ ~TouchesText
    /\ inv.layer = "tool" => inv.result = DeleteSucceeded

\* C16, amended: deleteText with count 0 makes no call on any document; it
\* acquires the application first, and the delete-text tool returns a
\* non-error success result exactly when the application was acquired.
C16_ZeroCountSucceedsOnceAcquired ==
  (ServiceDone("deleteText") /\ inv.a[1] = 0) =>
    /\ ~TouchesText
    /\ inv.calls = <<>>
    /\ inv.layer = "tool" =>
         /\ inv.result.isError <=> Includes(inv.err, "Failed to initialize Word.Application.")
         /\ ~inv.result.isError => inv.result = DeleteSucceeded
    /\ TextAfter(TextBefore, inv.env[3], inv.calls) = TextBefore

\* C16: the delete-text tool returned success for count 0 with no document.
C16_Witness ==
  /\ ToolReturned("word_deleteText")
  /\ inv.a[1] = 0
  /\ inv.nd = 0
  /\ inv.result = DeleteSucceeded
  /\ ~inv.result.isError

\* C17: deleteText with count k > 0 deletes exactly the k units after the
\* position; with count -k it deletes exactly the k units that end at the
\* original position and nothing after it.
C17_DeletesExactlyCount ==
  (ServiceDone("deleteText") /\ inv.nd > 0 /\ inv.err = NoError /\ inv.a[1] # 0) =>
    LET at == inv.env[2]
        count == inv.a[1]
        after == TextAfter(TextBefore, inv.env[3], inv.calls).text
    IN IF count > 0
         THEN after = Cut(TextBefore.text, at + 1, at + count)
         ELSE after = Cut(TextBefore.text, Max(1, at + count + 1), at)


(***************************************************************************)
(* toggleUnderline.  inv.env is <<the style font.Underline reads>>.        *)
(***************************************************************************)
\* The values assigned to property `member`, in order.
RECURSIVE Writes(_, _)
Writes(member, calls) ==
  IF calls = <<>> THEN <<>>
  ELSE (IF Head(calls)[1] = "set" /\ Head(calls)[2] = member
          THEN <<Head(calls)[4][1]>> ELSE <<>>) \o Writes(member, Tail(calls))
\* A property after the calls: the last value assigned, or the one it had.
After(member, value, calls) ==
  IF Writes(member, calls) = <<>> THEN value
  ELSE Writes(member, calls)[Len(Writes(member, calls))]

\* The underline after toggleUnderline(style) on a selection underlined
\* with `underline`.
Toggled(style, underline) ==
  After("Underline", underline,
        CallsOf("toggleUnderline", [a |-> <<style>>, noDoc |-> "null", env |-> <<underline>>], 1))

\* C18: toggleUnderline(S) sets the underline to none when the current style
\* is S and to S otherwise, with a single assignment (a different style is
\* replaced without passing through none); two calls with the same S from
\* none end in none.
C18_ToggleUnderline ==
  (ServiceDone("toggleUnderline") /\ inv.nd > 0 /\ inv.err = NoError) =>
    LET S == inv.a[1]
        current == inv.env[1]
    IN /\ Len(Writes("Underline", inv.calls)) = 1
       /\ After("Underline", current, inv.calls) = IF current = S THEN 0 ELSE S
       /\ Toggled(S, current) = After("Underline", current, inv.calls)
       /\ Toggled(S, Toggled(S, 0)) = 0

\* C18: a selection underlined with one style has been given another.
C18_Witness ==
  /\ ServiceDone("toggleUnderline")
  /\ inv.nd > 0
  /\ inv.err = NoError
  /\ inv.env[1] = 4
  /\ inv.a[1] = 1
  /\ After("Underline", 4, inv.calls) = 1

(***************************************************************************)
(* setInlinePictureSize.  inv.a is <<shapeIndex, heightPoints, widthPoints,*)
(* lockAspectRatio>>, inv.env <<InlineShapes.Count, Height, Width,         *)
(* LockAspectRatio of the shape>>.                                         *)
(***************************************************************************)
\* The call was made on a valid shape index and ran through.
Sized == ServiceDone("setInlinePictureSize") /\ inv.nd > 0 /\ inv.err = NoError /\ inv.a[1] \in 1..inv.env[1]
\* What the method has assigned to the shape.  The dimension Word rescales
\* itself under a locked ratio is not an assignment of the method.
ShapeBefore == [Height |-> inv.env[2], Width |-> inv.env[3], LockAspectRatio |-> inv.env[4]]
ShapeAfter == [Height |-> After("Height", inv.env[2], inv.calls), Width |-> After("Width", inv.env[3], inv.calls), LockAspectRatio |-> After("LockAspectRatio", inv.env[4], inv.calls)]

\* C19: with height H > 0, width W > 0 and the ratio locked, on a shape of
\* height Ho and width Wo, exactly one dimension is assigned: the width, to W,
\* when W / Wo > H / Ho, and otherwise, a tie included, the height, to H.
C19_DominantDimension ==
  (Sized /\ inv.a[2] > 0 /\ inv.a[3] > 0 /\ inv.a[4]) =>
    IF inv.a[3] * inv.env[2] > inv.a[2] * inv.env[3]
      THEN Writes("Width", inv.calls) = <<inv.a[3]>> /\ Writes("Height", inv.calls) = <<>>
      ELSE Writes("Height", inv.calls) = <<inv.a[2]>> /\ Writes("Width", inv.calls) = <<>>

\* C19: equal ratios, on a shape that is not square: the height was assigned.
C19_Witness ==
  /\ Sized
  /\ inv.a[4]
  /\ inv.a[2] > 0
  /\ inv.a[3] > 0
  /\ inv.env[2] # inv.env[3]
  /\ inv.a[3] * inv.env[2] = inv.a[2] * inv.env[3]
  /\ Writes("Height", inv.calls) = <<inv.a[2]>>

OnlyHeight == inv.a[2] > 0 /\ inv.a[3] <= 0
OnlyWidth == inv.a[3] > 0 /\ inv.a[2] <= 0
NoSize == inv.a[2] <= 0 /\ inv.a[3] <= 0
OneDimension ==
  /\ (Sized /\ OnlyHeight) =>
       Writes("Height", inv.calls) = <<inv.a[2]>> /\ Writes("Width", inv.calls) = <<>>
  /\ (Sized /\ OnlyWidth) =>
       Writes("Width", inv.calls) = <<inv.a[3]>> /\ Writes("Height", inv.calls) = <<>>

\* C20 as stated: when exactly one of height and width is positive only that
\* dimension is assigned; when neither is, the shape's height, width and
\* aspect-ratio lock after the call equal those before it.
C20_NoSizeNoChange ==
  /\ OneDimension
  /\ (Sized /\ NoSize) => ShapeAfter = ShapeBefore

\* C20, amended: when exactly one of height and width is positive only that
\* dimension is assigned; when neither is, neither is assigned, and the
\* aspect-ratio lock is still set as requested by the service method (the
\* tool calls nothing).
C20_NoSizeKeepsSize ==
  /\ OneDimension
  /\ (Sized /\ NoSize) =>
       /\ ShapeAfter.Height = ShapeBefore.Height
       /\ ShapeAfter.Width = ShapeBefore.Width
       /\ Writes("Height", inv.calls) = <<>>
       /\ Writes("Width", inv.calls) = <<>>
       /\ IF inv.layer = "tool"
            THEN inv.calls = <<>> /\ ShapeAfter = ShapeBefore
            ELSE ShapeAfter.LockAspectRatio = IF inv.a[4] THEN -1 ELSE 0

\* C20: the service method ran with no positive size on an unlocked shape.
C20_Witness ==
  /\ Sized
  /\ NoSize
  /\ inv.layer = "service"
  /\ inv.env[4] = 0
  /\ inv.a[4]
  /\ ShapeAfter.LockAspectRatio = -1
  /\ ShapeAfter.Height = ShapeBefore.Height


(***************************************************************************)
(* findAndReplace.  inv.env is <<what Find.Execute returns, the number of  *)
(* matches in the document>>.                                              *)
(***************************************************************************)
\* Find.Execute with Replace = wdReplaceAll (2) replaces every match, with
\* wdReplaceOne (1) the first one.
RECURSIVE MatchesAfter(_, _)
MatchesAfter(n, calls) ==
  IF calls = <<>> THEN n
  ELSE LET c == Head(calls)
       IN MatchesAfter(IF c[2] # "Find.Execute" THEN n
                       ELSE IF c[4] = <<2>> THEN 0
                       ELSE IF c[4] = <<1>> THEN Max(0, n - 1)
                       ELSE n,
                       Tail(calls))

\* C21: findAndReplace with replaceAll replaces every occurrence (three leave
\* none), without it only the first one, and in both cases it returns true
\* exactly when there was a match; the tool reports the same.
C21_ReplaceAllOrFirst ==
  (ServiceDone("findAndReplace") /\ inv.nd > 0 /\ inv.err = NoError) =>
    LET n == inv.env[2]
        left == MatchesAfter(n, inv.calls)
    IN /\ inv.a[3] => left = 0
       /\ ~inv.a[3] => left = (IF n = 0 THEN 0 ELSE n - 1)
       /\ inv.env[1] <=> n > 0
       /\ inv.layer = "tool" =>
            (inv.result.content = << <<"Successfully found and replaced text.">> >> <=> n > 0)

\* C21: three occurrences were replaced by one replace-all call.
C21_Witness ==
  /\ ServiceDone("findAndReplace")
  /\ inv.nd > 0
  /\ inv.err = NoError
  /\ inv.a[3]
  /\ inv.env[2] = 3
  /\ MatchesAfter(3, inv.calls) = 0


(***************************************************************************)
(* setHeaderFooterText.  inv.a is <<sectionIndex, headerFooterType,        *)
(* isHeader>>, inv.env <<Sections.Count, the Exists flag>>; the text given *)
(* is written as 0.                                                        *)
(***************************************************************************)
HeaderFooterSet == ServiceDone("setHeaderFooterText") /\ inv.nd > 0 /\ inv.a[1] \in 1..inv.env[1]
TypeInRange == inv.a[2] \in 1..3
NoTextWritten == Writes("Range.Text", inv.calls) = <<>>

\* C22: setHeaderFooterText on a header or footer that reports it does not
\* exist fails with the not-found error and writes no text; a type code
\* outside 1..3 fails without a write; on one that exists the text is
\* assigned once, to the text given.
C22_HeaderFooterText ==
  /\ (HeaderFooterSet /\ TypeInRange /\ ~inv.env[2]) =>
       /\ inv.err # NoError
       /\ NoTextWritten
       /\ Includes(inv.done, "Exists") =>
            Includes(inv.err, "The requested type does not exist or is not active.")
       /\ inv.layer = "tool" => inv.result.isError
  /\ (HeaderFooterSet /\ ~TypeInRange) =>
       /\ inv.err # NoError
       /\ NoTextWritten
       /\ ~Includes(inv.done, "HeadersFooters.Item")
       /\ (Includes(inv.done, "Headers") \/ Includes(inv.done, "Footers")) =>
            Includes(inv.err, "Invalid header/footer type.")
  /\ (HeaderFooterSet /\ TypeInRange /\ inv.env[2] /\ inv.err = NoError) =>
       /\ Writes("Range.Text", inv.calls) = <<0>>
       /\ After("Range.Text", -1, inv.calls) = 0

\* C22: a header that does not exist was asked for and the call failed.
C22_Witness ==
  /\ HeaderFooterSet
  /\ TypeInRange
  /\ ~inv.env[2]
  /\ inv.a[3]
  /\ Includes(inv.err, "The requested type does not exist or is not active.")
  /\ NoTextWritten


(***************************************************************************)
(* setTableCellText.  inv.a is <<tableIndex, rowIndex, colIndex>>, inv.env *)
(* <<Tables.Count, Rows.Count, Columns.Count of the table>>.               *)
(***************************************************************************)
OutOfBoundsErrors == {"Table index is out of bounds.", "Row index is out of bounds.", "Column index is out of bounds."}
CellResolved == \E i \in 1..Len(inv.calls) : inv.calls[i][2] = "Cell"
\* A cell outside the rows or the columns of an existing table was named,
\* and the table was reached.
CellOutsideTable ==
  /\ ServiceDone("setTableCellText")
  /\ inv.nd > 0
  /\ inv.a[1] \in 1..inv.env[1]
  /\ inv.a[2] > inv.env[2] \/ inv.a[3] > inv.env[3]
  /\ Includes(inv.done, "Tables.Item")

\* C23: setTableCellText with a valid table index and a row index above the
\* row count, or a column index above the column count, is rejected by a
\* check against the count with an out-of-bounds error, before any cell is
\* resolved and without any write.
C23_CellIndexChecked ==
  CellOutsideTable =>
    /\ \E f \in OutOfBoundsErrors : Includes(inv.err, f)
    /\ ~CellResolved
    /\ NoTextWritten


(***************************************************************************)
(* setParagraphLineSpacing.  inv.a is <<lineSpacingRule, lineSpacingValue>>*)
(* with the value <<>> when it is not given.                               *)
(***************************************************************************)
ValueRules == 3..5

\* C24: setParagraphLineSpacing always assigns the rule, and assigns the
\* value exactly when one is given and the rule is 3, 4 or 5; otherwise the
\* value is left as it was.
C24_LineSpacingValue ==
  (ServiceDone("setParagraphLineSpacing") /\ inv.nd > 0 /\ inv.err = NoError) =>
    /\ Writes("LineSpacingRule", inv.calls) = <<inv.a[1]>>
    /\ Writes("LineSpacing", inv.calls) =
         (IF Given(inv.a[2]) /\ inv.a[1] \in ValueRules THEN <<inv.a[2][1]>> ELSE <<>>)
    /\ ~(Given(inv.a[2]) /\ inv.a[1] \in ValueRules) =>
         After("LineSpacing", -1, inv.calls) = -1

\* C24: a value was given with a rule that takes none, and was not assigned.
C24_Witness ==
  /\ ServiceDone("setParagraphLineSpacing")
  /\ inv.nd > 0
  /\ inv.err = NoError
  /\ inv.a[1] \in 0..2
  /\ Given(inv.a[2])
  /\ Writes("LineSpacingRule", inv.calls) = <<inv.a[1]>>
  /\ Writes("LineSpacing", inv.calls) = <<>>

\* The handler returned without entering a service method: no automation
\* call was made, not even to acquire the application.
NoServiceCall == inv.svc = {} /\ inv.calls = <<>> /\ trace = <<>>

\* C29: the set-line-spacing tool with a rule of 3, 4 or 5 and no value
\* returns an error-flagged result without calling the service, so neither
\* the rule nor the value is assigned.
C29_ValueRequired ==
  (ToolReturned("word_setParagraphLineSpacing") /\ inv.a[1] \in ValueRules /\ ~Given(inv.a[2])) =>
    /\ inv.result.isError
    /\ inv.result.content = <<Describe("Failed to set line spacing:", <<"lineSpacingValue is required.">>)>>
    /\ NoServiceCall
    /\ Writes("LineSpacingRule", inv.calls) = <<>>
    /\ Writes("LineSpacing", inv.calls) = <<>>

\* C29: the tool was called with rule 3 and no value, a document being open.
C29_Witness ==
  /\ ToolReturned("word_setParagraphLineSpacing")
  /\ inv.a[1] = 3
  /\ ~Given(inv.a[2])
  /\ nDocs > 0
  /\ inv.result.isError

\* C30: the set-inline-picture-size tool with neither size positive returns
\* the non-error result "No size change specified." without calling the
\* service, whatever the shape index and with or without a document.
C30_NoSizeIsNoError ==
  (ToolReturned("word_setInlinePictureSize") /\ NoSize) =>
    /\ inv.result = [isError |-> FALSE, content |-> << <<"No size change specified.">> >>]
    /\ NoServiceCall
    /\ inv.err = NoError

\* C30: the tool was called with no positive size and a shape index that no
\* shape has.
C30_Witness ==
  /\ ToolReturned("word_setInlinePictureSize")
  /\ NoSize
  /\ inv.a[1] > inv.env[1]
  /\ ~inv.result.isError


(***************************************************************************)
(* Which failures of automation calls a method passes on                   *)
(***************************************************************************)
\* The last call of the method's body threw: it was made and not completed.
CallThrew == Len(inv.calls) > Len(inv.done)
\* A probe of the held handle threw: the probe reads are followed by the
\* construction of a new instance.
ProbeThrew == \E i \in 1..Len(trace) : \E j \in (i + 1)..Len(trace) : trace[i][1] = "get" /\ trace[j][1] = "new"
AutomationCallThrew == CallThrew \/ ProbeThrew
ServiceReturnedTo == pc = "returned" /\ inv.layer = "service"
\* The close tool obtained the active document.
ActiveDocumentObtained == ToolReturned("word_closeActiveDocument") /\ inv.nd > 0 /\ Includes(inv.done, "ActiveDocument")
CloseSucceeded == [isError |-> FALSE, content |-> << <<"Successfully done.">> >>]
CloseSwallows ==
  /\ (ServiceReturnedTo /\ inv.op \in {"closeDocument", "quitWord"}) => inv.err = NoError
  /\ ActiveDocumentObtained => inv.result = CloseSucceeded

\* C25 as stated: only closeDocument and quitWord swallow the failure of an
\* automation call; every other service method throws when one of its
\* automation calls throws; closeDocument returns normally whatever Close
\* does, so the close tool reports success once it has the active document.
C25_SwallowedOnlyByCloseAndQuit ==
  /\ (ServiceReturnedTo /\ inv.op \notin {"closeDocument", "quitWord"} /\ AutomationCallThrew) =>
       inv.err # NoError
  /\ CloseSwallows

\* C25, amended: besides closeDocument and quitWord, getWordApplication
\* swallows the failure of a probe of the held handle and constructs a new
\* instance; every other failure of an automation call makes the method
\* throw.
C25_SwallowedByCloseQuitAndProbe ==
  /\ (ServiceReturnedTo /\ inv.op \notin {"closeDocument", "quitWord"} /\ CallThrew) =>
       inv.err # NoError
  /\ (ServiceReturnedTo /\ inv.op \notin {"closeDocument", "quitWord"} /\ ProbeThrew
        /\ inv.err = NoError) =>
       /\ wordApp = created
       /\ wordApp \in running
  /\ (ServiceReturnedTo /\ Includes(inv.err, "Failed to initialize Word.Application.")) =>
       inv.calls = <<>>
  /\ CloseSwallows

\* C25: the close tool reported success although Close threw.
C25_Witness ==
  /\ ActiveDocumentObtained
  /\ CallThrew
  /\ inv.calls[Len(inv.calls)][2] = "Close"
  /\ inv.result = CloseSucceeded
  /\ nDocs = inv.nd


(***************************************************************************)
(* setPageMargins.  inv.a is <<topPoints, bottomPoints, leftPoints,        *)
(* rightPoints>>; -1 stands for the value a margin had before the call.    *)
(***************************************************************************)
Margins == <<"TopMargin", "BottomMargin", "LeftMargin", "RightMargin">>
\* The calls that ran through.
Completed == SubSeq(inv.calls, 1, Len(inv.done))
\* The assignment of the k-th margin threw.
MarginThrew(k) == ServiceDone("setPageMargins") /\ CallThrew /\ inv.calls[Len(inv.calls)][2] = Margins[k]

\* C26: when the k-th of the four margin assignments throws, the margins
\* before it have their new values, that one and the later ones their old
\* values, the failing assignment was attempted once, and the operation
\* reports an error.
C26_NoRollbackNoRetry ==
  \A k \in 1..4 :
    MarginThrew(k) =>
      /\ Includes(inv.err, "Failed to set page margins.")
      /\ inv.layer = "tool" => inv.result.isError
      /\ \A j \in 1..4 :
           After(Margins[j], -1, Completed) = (IF j < k THEN inv.a[j] ELSE -1)
      /\ \A j \in 1..4 :
           Len(Writes(Margins[j], inv.calls)) = (IF j <= k THEN 1 ELSE 0)

\* C26: the third assignment threw after two margins had been changed.
C26_Witness ==
  /\ MarginThrew(3)
  /\ After("TopMargin", -1, Completed) = inv.a[1]
  /\ After("BottomMargin", -1, Completed) = inv.a[2]
  /\ After("RightMargin", -1, Completed) = -1


(***************************************************************************)
(* Two invocations acquiring the application.  getWordApplication has no   *)
(* await (lines 36-67): called by an invocation, it runs from its test of  *)
(* this.wordApp to its return in one turn of the event loop, and the       *)
(* invocation is suspended only afterwards, at its caller's await.         *)
(***************************************************************************)
\* An invocation dispatched while the service holds `held`, before it runs.
Dispatched(held) == [at |-> 0, arrived |-> held, before |-> 0, probe |-> "none", ret |-> 0, made |-> 0]

\* A faulty variant: the test of this.wordApp is made when the invocation is
\* dispatched, and the rest runs in a later turn.
acquireInTurn_suspended(held, arrived, n, probe, ctor, vis) ==
  getWordApplication(arrived, n, probe, ctor, vis)

\* The call of getWordApplication by an invocation dispatched when the
\* service held `arrived`, at a time the service holds `held`.
acquireInTurn(held, arrived, n, probe, ctor, vis) ==
  getWordApplication(held, n, probe, ctor, vis)

InitAcquire ==
  /\ wordApp = 0
  /\ created = 0
  /\ running = {}
  /\ trace = <<>>
  /\ hlast = [op |-> "none", before |-> 0, createdBefore |-> 0, probe |-> "ok",
              ret |-> 0, threw |-> FALSE, err |-> NoError]
  /\ ServingInit
  /\ nDocs = 0
  /\ pc = "idle"
  /\ inv = NoInv
  /\ conc = [acq |-> <<Dispatched(0), Dispatched(0)>>, pair |-> TRUE]

\* Invocation k runs up to its first await.
AcquireTurn(k) ==
  \E probe \in ProbeOutcomes, ctor \in CallOutcomes, vis \in CallOutcomes :
    \E r \in {acquireInTurn(wordApp, conc.acq[k].arrived, created, probe, ctor, vis)} :
      /\ conc.acq[k].at = 0
      /\ r.created > created => created < MaxInst
      /\ wordApp' = r.wordApp
      /\ created' = r.created
      /\ running' = running \cup ((1..r.created) \ (1..created))
      /\ trace' = r.trace
      /\ conc' = [conc EXCEPT !.acq[k] =
                    [at |-> 1, arrived |-> conc.acq[k].arrived, before |-> wordApp,
                     probe |-> IF wordApp = 0 THEN "none" ELSE probe,
                     ret |-> r.ret, made |-> r.created - created]]
      /\ UNCHANGED <<hlast, srvVars, nDocs, pc, inv>>

\* The invocation in slot k has returned and another one is dispatched; pair
\* records whether the two invocations now in the slots were waiting together
\* while no handle was held.
Arrive(k) ==
  /\ conc.acq[k].at = 1
  /\ conc' = [acq |-> [conc.acq EXCEPT ![k] = Dispatched(wordApp)],
              pair |-> (conc.acq[3 - k].at = 0 /\ wordApp = 0)]
  /\ UNCHANGED <<wordApp, created, running, trace, hlast, srvVars, nDocs, pc, inv>>

NextAcquire == \E k \in 1..2 : AcquireTurn(k) \/ Arrive(k)

SpecAcquire == InitAcquire /\ [][NextAcquire]_vars

Acquired(k) == conc.acq[k].at = 1
\* No automation call of invocation k threw, and it got a handle.
Smooth(k) == Acquired(k) /\ conc.acq[k].ret # 0 /\ conc.acq[k].probe \in {"none", "ok"}

\* Both invocations were dispatched, and waited together, with no handle held.
BothStartedWithout == conc.pair /\ conc.acq[1].arrived = 0 /\ conc.acq[2].arrived = 0

\* C27: an instance is constructed only by an invocation that finds no
\* handle held or whose probe of the held handle has just failed; while the
\* held handle passes its probe it is returned and nothing is constructed;
\* two invocations dispatched with no handle held, none of whose automation
\* calls throws, construct one instance between them and get the same handle.
C27_OneInstance ==
  /\ \A k \in 1..2 :
       Acquired(k) =>
         /\ conc.acq[k].made \in {0, 1}
         /\ conc.acq[k].made = 1 => (conc.acq[k].before = 0 \/ conc.acq[k].probe \notin {"none", "ok"})
         /\ (conc.acq[k].before # 0 /\ conc.acq[k].probe = "ok") =>
              (conc.acq[k].made = 0 /\ conc.acq[k].ret = conc.acq[k].before)
  /\ (BothStartedWithout /\ Smooth(1) /\ Smooth(2)) =>
       /\ conc.acq[1].ret = conc.acq[2].ret
       /\ conc.acq[1].made + conc.acq[2].made = 1

\* C27: two invocations dispatched with no handle held have both acquired it.
C27_Witness ==
  /\ BothStartedWithout
  /\ Smooth(1)
  /\ Smooth(2)
  /\ conc.acq[1].ret = wordApp
  /\ conc.acq[2].ret = wordApp
  /\ conc.acq[1].made + conc.acq[2].made = 1


(***************************************************************************)
(* Routing of posted messages among the open SSE sessions                  *)
(***************************************************************************)
\* The transport created for the connection whose session id is s: the k-th
\* accepted connection has session id k and transport k.
TransportOf(s) == s

\* The post just made was handed to a transport.
PostDispatched == lastPost.to # 0

\* C28: a message posted with session id s is handed to no transport or to
\* the transport created for the connection with session id s, which is then
\* open; it is never handed to the transport of another session.
C28_PostStep ==
  (lastPost'.tick # lastPost.tick /\ lastPost'.to # 0) =>
    /\ lastPost'.to = TransportOf(lastPost'.sid)
    /\ lastPost'.sid \in OpenConns
    /\ \A c \in OpenConns \ {lastPost'.sid} : lastPost'.to # TransportOf(c)

C28_RoutedToOwnSession == [][C28_PostStep]_vars

\* C28: with two other sessions accepted, one still open and one closed, a
\* message posted for the first session reached the first session's transport.
C28_Witness ==
  /\ phase = "sse"
  /\ nextConn = MaxConns
  /\ PostDispatched
  /\ lastPost.sid = 1
  /\ lastPost.to = TransportOf(1)
  /\ OpenConns = {1, MaxConns}
====
